---- MODULE Spec2Model ----
(***************************************************************************)
(* A model of rokoko: the type list (Empty / With) with its lookups        *)
(* (Component, GetData, GetFn), the window builder with its `create`       *)
(* aggregation and the event-loop closure it installs, and the variadic    *)
(* constructor vec::new built on the Piece protocol.                       *)
(*                                                                         *)
(* A type list is a sequence of nodes, head (the most recently added       *)
(* node) first.  A reference into a list is the position of the node it    *)
(* points at.  Option values are sequences: None is << >>, Some(v) is      *)
(* <<v>>.                                                                  *)
(***************************************************************************)
EXTENDS Integers, Sequences, FiniteSets, TLC

\* ------------------------------------------------------------------------
\* Bounds
\* ------------------------------------------------------------------------

\* the number of builder calls made before `create`
MaxDepth == 3

\* the number of events the windowing system delivers on its own
MaxEvents == 2

\* the number of nodes of a Component chain
MaxComp == 3

\* the largest size N of a vec a method or an operator is called on
MaxN == 3

\* the largest size N of a vec built by vec::new
MaxSlots == 4

\* the largest number of arguments given to vec::new
MaxArgs == 2

VARIABLES
    chain,          \* WindowBuilder.0, then `data` moved into the closure
    pc,             \* where the program is: building / running / ...
    wb,             \* calls made on the winit WindowBuilder, in order
    outcome,        \* panic message or error returned by create, "none" if none
    builds,         \* how many times wb.build was called
    queue,          \* events the event loop has not delivered yet
    control_flow,   \* *control_flow of the event loop
    log,            \* user callbacks invoked and Window::close calls, in order:
                    \* which one, the callback's id, the number of events
                    \* delivered by then, the node holding the callback
    delivered,      \* events handed to the closure so far, in order
    injected,       \* how many events the windowing system has produced
    comp,           \* a Component chain (component::With / component::Empty)
    last,           \* the last write made through Component::get_mut, if any
    got,            \* the last Component::get_mut whose caller wrote nothing:
                    \* the type asked for, the node returned, the chain then
    N,              \* the size of the vec that vec::new builds
    args,           \* the arguments of vec::new, packed in a tuple
    result,         \* the memory of the vec under construction
    this,           \* the vec a method or an operator is called on (`self`)
    rhs,            \* the vec given as the second operand
    op,             \* the call made on `this`: which one, with which function,
                    \* element type, index and value, in which build
    ret,            \* what the call returned, and the indices at which it
                    \* called its predicate
    full,           \* wb_statics::Data::get(): the data fields declared
    generated,      \* what window_builder_create has generated
    present         \* the data fields present in the chain that the
                    \* generated create is called on

winVars == <<chain, pc, wb, outcome, builds, queue, control_flow, log, delivered, injected>>

compVars == <<comp, last, got>>

newVars == <<N, args, result>>

vecVars == <<this, rhs, op, ret>>

macroVars == <<full, generated, present>>

vars == <<chain, pc, wb, outcome, builds, queue, control_flow, log, delivered, injected, comp, last, got, N,
          args, result,
          this, rhs, op, ret, full, generated, present>>

\* ------------------------------------------------------------------------
\* Option
\* ------------------------------------------------------------------------

None == << >>

Some(v) == <<v>>

\* ------------------------------------------------------------------------
\* window::build::type_list and the nodes the builder makes
\* ------------------------------------------------------------------------

Empty == << >>

\* a With that puts the new node behind the others
With_Appended(data, next) == next \o <<data>>

With(data, next) == <<data>> \o next

\* the data structs declared by config!: Title(&str), Size(vec2), Maximized,
\* SizeIsLogical
DataTags == {"Title", "Size", "Maximized", "SizeIsLogical"}

\* the callback ids declared by config!
CallbackIds == {"OnClose", "OnInit", "OnExit"}

Titles == {"a", "b"}

Sizes == {<<1000, 1000>>}

\* User callbacks, after the examples of the on_close documentation: one that
\* only logs, Window::close itself, and the counter that closes the window
\* when it reaches zero.  `id` tells two registrations apart.
Callbacks ==
    { [id |-> 1, mode |-> "log", counter |-> 0],
      [id |-> 2, mode |-> "close", counter |-> 0],
      [id |-> 3, mode |-> "counter", counter |-> 2] }

Data(tag, x) == [ty |-> tag, val |-> x]

FnContainer(ID, cb) == [ty |-> "FnContainer", id |-> ID, val |-> cb]

\* ------------------------------------------------------------------------
\* window::build::getters
\* ------------------------------------------------------------------------

\* GetData whose With <E, N> case forgets to ask `next`
GetDataFrom_HeadOnly(c, T, i) ==
    IF i > Len(c) THEN None
    ELSE IF c[i].ty = T THEN Some(i)
    ELSE None

RECURSIVE GetDataFrom(_, _, _)
\* the position of the node GetData <T> resolves to, searching from node i
GetDataFrom(c, T, i) ==
    IF i > Len(c) THEN None
    ELSE IF c[i].ty = T THEN Some(i)
    ELSE GetDataFrom(c, T, i + 1)

GetData(c, T) ==
    LET r == GetDataFrom(c, T, 1)
    IN  IF r = None THEN None ELSE Some(c[r[1]].val)

RECURSIVE GetFnFrom_Deepest(_, _, _)
\* GetFn that asks `next` before it looks at its own container
GetFnFrom_Deepest(c, ID, i) ==
    IF i > Len(c) THEN None
    ELSE IF GetFnFrom_Deepest(c, ID, i + 1) # None THEN GetFnFrom_Deepest(c, ID, i + 1)
    ELSE IF c[i].ty = "FnContainer" /\ c[i].id = ID THEN Some(i)
    ELSE None

RECURSIVE GetFnFrom_Shadowed(_, _, _)
\* a GetFn that the container of another event hides the rest of the chain
\* from
GetFnFrom_Shadowed(c, ID, i) ==
    IF i > Len(c) THEN None
    ELSE IF c[i].ty # "FnContainer" THEN GetFnFrom_Shadowed(c, ID, i + 1)
    ELSE IF c[i].id # ID THEN None
    ELSE Some(i)

RECURSIVE GetFnFrom(_, _, _)
\* the position of the node GetFn <ID> resolves to, searching from node i
GetFnFrom(c, ID, i) ==
    IF i > Len(c) THEN None
    ELSE IF c[i].ty # "FnContainer" THEN GetFnFrom(c, ID, i + 1)
    ELSE IF c[i].id # ID THEN GetFnFrom(c, ID, i + 1)
    ELSE Some(i)

\* Option <&mut F>: the position of the container whose `cb` is borrowed
GetFn(c, ID) == GetFnFrom(c, ID, 1)

\* the accessors config! generates for the data structs
title(data) == GetData(data, "Title")

size(data) == GetData(data, "Size")

maximized(data) == GetData(data, "Maximized")

size_is_logical(data) == GetData(data, "SizeIsLogical")

\* the accessors config! generates for the callbacks
on_close(data) == GetFn(data, "OnClose")

on_init(data) == GetFn(data, "OnInit")

on_exit(data) == GetFn(data, "OnExit")

\* ------------------------------------------------------------------------
\* Window::close and the invocation of a user callback
\* ------------------------------------------------------------------------

\* The part of the state a callback can touch: the closure state kept in the
\* chain, the event queue behind the proxy, and the trace.
Env(c, q, l) == [chain |-> c, queue |-> q, log |-> l]

\* a close that sends nothing to the event loop
close_NothingSent(s, at) ==
    [s EXCEPT !.log = Append(@, [ev |-> "close", id |-> 0, at |-> at, node |-> 0])]

\* Window::close: proxy.send_event(UserEvent::Close)
close(s, at) ==
    [s EXCEPT !.queue = Append(@, "Close"),
              !.log = Append(@, [ev |-> "close", id |-> 0, at |-> at, node |-> 0])]

\* the closure state after one call
Step(cb) ==
    IF cb.mode = "counter" THEN [cb EXCEPT !.counter = @ - 1] ELSE cb

\* does this call of the closure call Window::close
Closes(cb) ==
    \/ cb.mode = "close"
    \/ cb.mode = "counter" /\ cb.counter - 1 = 0

\* cb(window_ref), cb being the &mut F found at position i
Call(s, i, at) ==
    LET cb == s.chain[i].val
        s1 == [s EXCEPT !.chain[i].val = Step(cb),
                        !.log = Append(@, [ev |-> s.chain[i].id, id |-> cb.id, at |-> at, node |-> i])]
    IN  IF Closes(cb) THEN close(s1, at) ELSE s1

\* ------------------------------------------------------------------------
\* WindowBuilder: the builder calls
\* ------------------------------------------------------------------------

Building == pc = "building" /\ Len(chain) < MaxDepth

LoopUnchanged == UNCHANGED <<pc, wb, outcome, builds, queue, control_flow, log, delivered, injected>>

Title ==
    /\ Building
    /\ \E x \in Titles : chain' = With(Data("Title", x), chain)
    /\ LoopUnchanged
    /\ UNCHANGED compVars
    /\ UNCHANGED newVars
    /\ UNCHANGED vecVars
    /\ UNCHANGED macroVars

Size ==
    /\ Building
    /\ \E x \in Sizes : chain' = With(Data("Size", x), chain)
    /\ LoopUnchanged
    /\ UNCHANGED compVars
    /\ UNCHANGED newVars
    /\ UNCHANGED vecVars
    /\ UNCHANGED macroVars

Maximized ==
    /\ Building
    /\ chain' = With(Data("Maximized", "unit"), chain)
    /\ LoopUnchanged
    /\ UNCHANGED compVars
    /\ UNCHANGED newVars
    /\ UNCHANGED vecVars
    /\ UNCHANGED macroVars

SizeIsLogical ==
    /\ Building
    /\ chain' = With(Data("SizeIsLogical", "unit"), chain)
    /\ LoopUnchanged
    /\ UNCHANGED compVars
    /\ UNCHANGED newVars
    /\ UNCHANGED vecVars
    /\ UNCHANGED macroVars

\* WindowBuilder::on_event
on_event(self, ID, cb) == With(FnContainer(ID, cb), self)

OnClose ==
    /\ Building
    /\ \E cb \in Callbacks : chain' = on_event(chain, "OnClose", cb)
    /\ LoopUnchanged
    /\ UNCHANGED compVars
    /\ UNCHANGED newVars
    /\ UNCHANGED vecVars
    /\ UNCHANGED macroVars

OnInit ==
    /\ Building
    /\ \E cb \in Callbacks : chain' = on_event(chain, "OnInit", cb)
    /\ LoopUnchanged
    /\ UNCHANGED compVars
    /\ UNCHANGED newVars
    /\ UNCHANGED vecVars
    /\ UNCHANGED macroVars

OnExit ==
    /\ Building
    /\ \E cb \in Callbacks : chain' = on_event(chain, "OnExit", cb)
    /\ LoopUnchanged
    /\ UNCHANGED compVars
    /\ UNCHANGED newVars
    /\ UNCHANGED vecVars
    /\ UNCHANGED macroVars

\* ------------------------------------------------------------------------
\* WindowBuilder::create
\* ------------------------------------------------------------------------

\* `x as u32` of a whole f32: saturating
AsU32(x) == IF x < 0 THEN 0 ELSE x

PhysicalSize(sz) == [unit |-> "Physical", width |-> AsU32(sz[1]), height |-> AsU32(sz[2])]

LogicalSize(sz) == [unit |-> "Logical", width |-> sz[1], height |-> sz[2]]

\* the messages of the two panics (the back quotes of the source are written as quotes)
ConflictMsg == "cannot have both 'size' and 'maximized'"

RequireMsg == "cannot have specification that 'size' is logical without specification of the 'size' itself"

\* a create without the default title
WithTitle_NoDefault(data) ==
    IF title(data) # None THEN <<[op |-> "with_title", arg |-> title(data)[1]]>> ELSE << >>

\* the title given to WinitWindowBuilder::with_title
WithTitle(data) ==
    <<[op |-> "with_title",
       arg |-> IF title(data) # None THEN title(data)[1] ELSE "rokoko window"]>>

\* the size block without the assertion on `maximized`
SizeBlock_NoAssert(data) ==
    IF size(data) # None
    THEN [wb |-> <<[op |-> "with_inner_size",
                    arg |-> IF size_is_logical(data) # None
                            THEN LogicalSize(size(data)[1])
                            ELSE PhysicalSize(size(data)[1])]>>,
          panic |-> "none"]
    ELSE IF size_is_logical(data) # None
         THEN [wb |-> << >>, panic |-> RequireMsg]
         ELSE [wb |-> << >>, panic |-> "none"]

\* the size block with the two units exchanged
SizeBlock_UnitsSwapped(data) ==
    IF size(data) # None
    THEN IF maximized(data) # None
         THEN [wb |-> << >>, panic |-> ConflictMsg]
         ELSE [wb |-> <<[op |-> "with_inner_size",
                         arg |-> IF size_is_logical(data) # None
                                 THEN PhysicalSize(size(data)[1])
                                 ELSE LogicalSize(size(data)[1])]>>,
               panic |-> "none"]
    ELSE IF size_is_logical(data) # None
         THEN [wb |-> << >>, panic |-> RequireMsg]
         ELSE [wb |-> << >>, panic |-> "none"]

\* the size block of create: the calls added to the external builder and the
\* panic raised, "none" if none
SizeBlock(data) ==
    IF size(data) # None
    THEN IF maximized(data) # None
         THEN [wb |-> << >>, panic |-> ConflictMsg]
         ELSE [wb |-> <<[op |-> "with_inner_size",
                         arg |-> IF size_is_logical(data) # None
                                 THEN LogicalSize(size(data)[1])
                                 ELSE PhysicalSize(size(data)[1])]>>,
               panic |-> "none"]
    ELSE IF size_is_logical(data) # None
         THEN [wb |-> << >>, panic |-> RequireMsg]
         ELSE [wb |-> << >>, panic |-> "none"]

MaximizedBlock(data) ==
    IF maximized(data) # None
    THEN <<[op |-> "with_maximized", arg |-> TRUE]>>
    ELSE << >>

\* create that never calls on_init
CallInit_Skipped(s) == s

\* `if let Some(cb) = data.on_init() { cb(window_ref) }`
CallInit(s) ==
    IF on_init(s.chain) # None THEN Call(s, on_init(s.chain)[1], 0) ELSE s

\* what the windowing system answers to wb.build(&event_loop): a window, or
\* one of its errors
BuildResults == {"Ok", "OsError: no display", "OsError: out of memory"}

\* a `?` that goes on with whatever it is given
Try_Ignored(r) == None

\* the `?` of `wb.build(&event_loop)?`: the error create returns with at
\* once, an OsError being returned as it is
Try(r) == IF r = "Ok" THEN None ELSE Some(r)

\* a create that calls the on_init callback before it looks at what wb.build
\* has answered
Create_InitFirst ==
    /\ pc = "building"
    /\ \E built \in BuildResults :
        LET sb == SizeBlock(chain)
            s == CallInit(Env(chain, queue, log))
        IN  IF sb.panic # "none"
            THEN /\ pc' = "panicked"
                 /\ outcome' = sb.panic
                 /\ wb' = WithTitle(chain) \o sb.wb
                 /\ UNCHANGED <<chain, builds, queue, control_flow, log>>
            ELSE /\ wb' = WithTitle(chain) \o sb.wb \o MaximizedBlock(chain)
                           \o <<[op |-> "build", arg |-> built]>>
                 /\ builds' = builds + 1
                 /\ chain' = s.chain
                 /\ queue' = s.queue
                 /\ log' = s.log
                 /\ pc' = IF Try(built) # None THEN "failed" ELSE "running"
                 /\ outcome' = IF Try(built) # None THEN Try(built)[1] ELSE outcome
                 /\ UNCHANGED control_flow
    /\ UNCHANGED <<delivered, injected>>
    /\ UNCHANGED compVars
    /\ UNCHANGED newVars
    /\ UNCHANGED vecVars
    /\ UNCHANGED macroVars

\* create up to the call of event_loop.run; `built` is what the windowing
\* system answers to wb.build
Create ==
    /\ pc = "building"
    /\ \E built \in BuildResults :
        LET sb == SizeBlock(chain)
        IN  IF sb.panic # "none"
            THEN /\ pc' = "panicked"
                 /\ outcome' = sb.panic
                 /\ wb' = WithTitle(chain) \o sb.wb
                 /\ UNCHANGED <<chain, builds, queue, control_flow, log>>
            ELSE /\ wb' = WithTitle(chain) \o sb.wb \o MaximizedBlock(chain)
                           \o <<[op |-> "build", arg |-> built]>>
                 /\ builds' = builds + 1
                 /\ IF Try(built) # None
                    THEN /\ pc' = "failed"
                         /\ outcome' = Try(built)[1]
                         /\ UNCHANGED <<chain, queue, control_flow, log>>
                    ELSE LET s == CallInit(Env(chain, queue, log))
                         IN  /\ pc' = "running"
                             /\ chain' = s.chain
                             /\ queue' = s.queue
                             /\ log' = s.log
                             /\ UNCHANGED <<outcome, control_flow>>
    /\ UNCHANGED <<delivered, injected>>
    /\ UNCHANGED compVars
    /\ UNCHANGED newVars
    /\ UNCHANGED vecVars
    /\ UNCHANGED macroVars

\* ------------------------------------------------------------------------
\* The event loop and the closure given to event_loop.run
\* ------------------------------------------------------------------------

\* the events of the windowing system: a close request, or anything else
WindowEvents == {"CloseRequested", "Other"}

\* the windowing system queues an event
WindowEvent ==
    /\ pc = "running"
    /\ injected < MaxEvents
    /\ \E e \in WindowEvents : queue' = Append(queue, e)
    /\ injected' = injected + 1
    /\ UNCHANGED <<chain, pc, wb, outcome, builds, control_flow, log, delivered>>
    /\ UNCHANGED compVars
    /\ UNCHANGED newVars
    /\ UNCHANGED vecVars
    /\ UNCHANGED macroVars

\* a closure without the early return
Exited_Never(cf) == FALSE

\* `if *control_flow == ControlFlow::Exit { return }`
Exited(cf) == cf = "Exit"

\* the UserEvent::Close arm
CloseArm(s, at) ==
    IF on_exit(s.chain) # None THEN Call(s, on_exit(s.chain)[1], at) ELSE s

\* a CloseRequested arm that closes the window after the callback as well
CloseRequestedArm_AlwaysCloses(s, at) ==
    close(IF on_close(s.chain) # None THEN Call(s, on_close(s.chain)[1], at) ELSE s, at)

\* the WindowEvent::CloseRequested arm
CloseRequestedArm(s, at) ==
    IF on_close(s.chain) # None THEN Call(s, on_close(s.chain)[1], at) ELSE close(s, at)

\* the event loop hands the next event to the closure
Dispatch ==
    /\ pc = "running"
    /\ queue # << >>
    /\ LET event == Head(queue)
           at == Len(delivered) + 1
           s0 == Env(chain, Tail(queue), log)
       IN  /\ delivered' = Append(delivered, event)
           /\ IF Exited(control_flow)
              THEN /\ queue' = s0.queue
                   /\ UNCHANGED <<chain, control_flow, log>>
              ELSE LET s == IF event = "Close" THEN CloseArm(s0, at)
                            ELSE IF event = "CloseRequested" THEN CloseRequestedArm(s0, at)
                            ELSE s0
                   IN  /\ chain' = s.chain
                       /\ queue' = s.queue
                       /\ log' = s.log
                       /\ control_flow' = IF event = "Close" THEN "Exit" ELSE "Wait"
    /\ UNCHANGED <<pc, wb, outcome, builds, injected>>
    /\ UNCHANGED compVars
    /\ UNCHANGED newVars
    /\ UNCHANGED vecVars
    /\ UNCHANGED macroVars

\* the event loop stops once the closure has asked for ControlFlow::Exit
Halt ==
    /\ pc = "running"
    /\ control_flow = "Exit"
    /\ pc' = "halted"
    /\ UNCHANGED <<chain, wb, outcome, builds, queue, control_flow, log, delivered, injected>>
    /\ UNCHANGED compVars
    /\ UNCHANGED newVars
    /\ UNCHANGED vecVars
    /\ UNCHANGED macroVars

\* ------------------------------------------------------------------------
\* component: Empty, With and the Component trait
\* ------------------------------------------------------------------------

\* the types kept in a Component chain (Capacity is the one of the module
\* documentation) and the values they wrap
CompTypes == {"Capacity", "Length", "Flag"}

CompVals == {0, 1}

\* TypeId::of::<T>() transmuted to u64: the hash of the type (the hashes
\* are shortened here; those of distinct types differ)
id(T) ==
    IF T = "Capacity" THEN 1140071481
    ELSE IF T = "Length" THEN 1402946736
    ELSE IF T = "Flag" THEN 160958792
    ELSE 0

RECURSIVE ComponentGetFrom(_, _, _)
\* Component::get from node i on: the node whose `data` is borrowed
ComponentGetFrom(c, T, i) ==
    IF i > Len(c) THEN None
    ELSE IF id(T) = id(c[i].ty) THEN Some(i)
    ELSE ComponentGetFrom(c, T, i + 1)

\* Component::get <T>
ComponentGet(c, T) == ComponentGetFrom(c, T, 1)

RECURSIVE ComponentGetMut_DeepestFrom(_, _, _)
\* a get_mut that walks the chain on its own and prefers the deepest node
ComponentGetMut_DeepestFrom(c, T, i) ==
    IF i > Len(c) THEN None
    ELSE IF ComponentGetMut_DeepestFrom(c, T, i + 1) # None
         THEN ComponentGetMut_DeepestFrom(c, T, i + 1)
    ELSE IF id(T) = id(c[i].ty) THEN Some(i)
    ELSE None

ComponentGetMut_Deepest(c, T) == ComponentGetMut_DeepestFrom(c, T, 1)

\* a get_mut that looks at the first node only
ComponentGetMut_HeadOnly(c, T) ==
    IF c # Empty /\ id(T) = id(c[1].ty) THEN Some(1) ELSE None

\* Component::get_mut <T>: transmute(self.get::<T>())
ComponentGetMut(c, T) == ComponentGet(c, T)

\* a program wraps its chain in one more With
CompWith ==
    /\ pc = "component"
    /\ Len(comp) < MaxComp
    /\ \E T \in CompTypes, v \in CompVals : comp' = With(Data(T, v), comp)
    /\ last' = None
    /\ got' = None
    /\ UNCHANGED winVars
    /\ UNCHANGED newVars
    /\ UNCHANGED vecVars
    /\ UNCHANGED macroVars

\* `if let Some(x) = component.get_mut::<T>() { *x = v }`
CompWrite ==
    /\ pc = "component"
    /\ \E T \in CompTypes, v \in CompVals :
        LET r == ComponentGetMut(comp, T)
        IN  /\ r # None
            /\ comp' = [comp EXCEPT ![r[1]].val = v]
            /\ last' = Some([ty |-> T, val |-> v, before |-> comp])
    /\ got' = None
    /\ UNCHANGED winVars
    /\ UNCHANGED newVars
    /\ UNCHANGED vecVars
    /\ UNCHANGED macroVars

\* `let x = component.get_mut::<T>();` and nothing written through x
CompGetMut ==
    /\ pc = "component"
    /\ \E T \in CompTypes :
        got' = Some([ty |-> T, ref |-> ComponentGetMut(comp, T), before |-> comp])
    /\ UNCHANGED <<comp, last>>
    /\ UNCHANGED winVars
    /\ UNCHANGED newVars
    /\ UNCHANGED vecVars
    /\ UNCHANGED macroVars

\* ------------------------------------------------------------------------
\* math::vec::new: Piece and New
\* ------------------------------------------------------------------------

\* size_of::<T>() of the element type T = i32
SizeOfT == 4

\* <i32 as Default>::default()
Default == 0

\* The pieces.  A scalar is a value of a type U with i32: From <U>, given by
\* its bits; an array [U; L], a vec <U, L> and a tuple hold their members.
Scalar(ty, bits) == [k |-> "scalar", ty |-> ty, bits |-> bits, elems |-> << >>]

Array(elems) == [k |-> "array", ty |-> "", bits |-> 0, elems |-> elems]

Vec(elems) == [k |-> "vec", ty |-> "", bits |-> 0, elems |-> elems]

Tuple(elems) == [k |-> "tuple", ty |-> "", bits |-> 0, elems |-> elems]

\* the sequences over S of length lo..hi
SeqsOf(S, lo, hi) == UNION {[1..len -> S] : len \in lo..hi}

U8s == {Scalar("u8", 7), Scalar("u8", 200)}

I8s == {Scalar("i8", 255)}

Bools == {Scalar("bool", 1)}

\* the arrays: [u8; L], [i8; L], [[u8; 1]; L], [[u8; 2]; L]
Arrays ==
    {Array(e) : e \in SeqsOf(U8s, 0, 2) \cup SeqsOf(I8s, 1, 2)
                      \cup SeqsOf({Array(<<x>>) : x \in U8s}, 1, 2)
                      \cup SeqsOf({Array(<<x, Scalar("u8", 7)>>) : x \in U8s}, 1, 2)}

\* the vecs: vec <u8, 2>
Vecs == {Vec(<<Scalar("u8", 7), x>>) : x \in U8s}

\* the tuples, of up to two members
Tuples ==
    {Tuple(e) : e \in SeqsOf({Scalar("u8", 7), Scalar("i8", 255),
                              Array(<<Scalar("u8", 7), Scalar("u8", 200)>>),
                              Tuple(<< >>)}, 0, 2)}

Pieces == U8s \cup I8s \cup Bools \cup Arrays \cup Vecs \cup Tuples

\* i32::from(x): zero extension of u8 and bool, sign extension of i8
From(p) == IF p.ty = "i8" /\ p.bits >= 128 THEN p.bits - 256 ELSE p.bits

RECURSIVE PieceN(_)
RECURSIVE SumN(_, _)
\* an N that counts the members
SumN_CountsMembers(elems, upto) == upto

\* T0::N + T1::N + ... of the first `upto` members
SumN(elems, upto) ==
    IF upto = 0 THEN 0 ELSE SumN(elems, upto - 1) + PieceN(elems[upto])

\* Piece::N
PieceN(p) ==
    IF p.k = "scalar" THEN 1
    ELSE IF p.k = "tuple" THEN SumN(p.elems, Len(p.elems))
    ELSE IF p.elems = << >> THEN 0
    ELSE Len(p.elems) * PieceN(p.elems[1])

\* offset(array, offset): sizeof(T) * offset bytes further
offset(array, off) == array + SizeOfT * off

\* vec::uninit(): N slots, none written; `order` keeps the addresses written
\* to, in the order of the writes, and `defaults` how many times
\* Default::default() has been evaluated
uninit(n) ==
    [cells |-> [i \in 1..n |-> [init |-> FALSE, val |-> 0, writes |-> 0]],
     refs |-> {}, order |-> << >>, defaults |-> 0]

\* vec::get_unchecked_mut(idx): the address of slot idx of the vec at address
\* 0, a reference to which is formed
get_unchecked_mut(m, idx) ==
    [m |-> [m EXCEPT !.refs = @ \cup {idx * SizeOfT}], ptr |-> 0 + idx * SizeOfT]

\* `*ptr = v`
Write(m, ptr, v) ==
    IF ptr \div SizeOfT + 1 \in DOMAIN m.cells
    THEN [m EXCEPT !.cells[ptr \div SizeOfT + 1] =
                       [init |-> TRUE, val |-> v, writes |-> @.writes + 1],
                   !.order = Append(@, ptr)]
    ELSE [m EXCEPT !.refs = @ \cup {ptr}, !.order = Append(@, ptr)]

RECURSIVE DefaultFill(_, _, _, _)
\* the loop `while i < (N - Args::N)` of New::call
DefaultFill(m, ptr, i, count) ==
    IF i < count
    THEN DefaultFill([Write(m, ptr, Default) EXCEPT !.defaults = @ + 1],
                     offset(ptr, 1), i + 1, count)
    ELSE m

\* the tuple impl that embeds every member at `place` itself
EmbedTupleAt_NoOffset(elems, place, k) == place

\* where the tuple impl embeds member k (counted from 0):
\* offset(place, 0 + T0::N + ... )
EmbedTupleAt(elems, place, k) == offset(place, SumN(elems, k))

RECURSIVE embed(_, _, _)
RECURSIVE EmbedArray(_, _, _, _)
RECURSIVE EmbedTuple(_, _, _, _)
RECURSIVE EmbedArray_StepOne(_, _, _, _)
\* a loop that moves `place` by one slot after each element
EmbedArray_StepOne(elems, m, place, i) ==
    IF i < Len(elems)
    THEN EmbedArray_StepOne(elems, embed(elems[i + 1], m, place), offset(place, 1), i + 1)
    ELSE m

\* the loop of Piece for [U; N]::embed
EmbedArray(elems, m, place, i) ==
    IF i < Len(elems)
    THEN EmbedArray(elems, embed(elems[i + 1], m, place),
                    offset(place, PieceN(elems[i + 1])), i + 1)
    ELSE m

\* the body of Piece for (T0, T1, ...)::embed, member after member
EmbedTuple(elems, m, place, k) ==
    IF k < Len(elems)
    THEN EmbedTuple(elems, embed(elems[k + 1], m, EmbedTupleAt(elems, place, k)), place, k + 1)
    ELSE m

\* Piece::embed
embed(p, m, place) ==
    IF p.k = "scalar" THEN Write(m, place, From(p))
    ELSE IF p.k = "tuple" THEN EmbedTuple(p.elems, m, place, 0)
    ELSE EmbedArray(p.elems, m, place, 0)

\* an assertion that never fails
TooManyArgs_Never(argsN, n) == FALSE

\* `assert!(Args::N <= N, "too many args")` fails
TooManyArgs(argsN, n) == ~(argsN <= n)

TooManyMsg == "too many args"

\* a New::call whose loop fills every slot, from the first one
Build_FillsAll(a, n) == embed(a, DefaultFill(uninit(n), 0, 0, n), 0)

\* New::call after the assertion: the vec returned
Build(a, n) ==
    LET r == get_unchecked_mut(uninit(n), PieceN(a))
        filled == DefaultFill(r.m, r.ptr, 0, n - PieceN(a))
    IN  embed(a, filled, 0)

\* vec::<i32, N>::new(args...)
New ==
    /\ pc = "new"
    /\ IF TooManyArgs(PieceN(args), N)
       THEN /\ pc' = "new_panicked"
            /\ outcome' = TooManyMsg
            /\ UNCHANGED result
       ELSE /\ pc' = "new_returned"
            /\ result' = Build(args, N)
            /\ UNCHANGED outcome
    /\ UNCHANGED <<chain, wb, builds, queue, control_flow, log, delivered, injected>>
    /\ UNCHANGED <<N, args>>
    /\ UNCHANGED compVars
    /\ UNCHANGED vecVars
    /\ UNCHANGED macroVars

\* ------------------------------------------------------------------------
\* the elements of a vec: T = i32 (ivec), or T = f32 (fvec) read from the
\* same 32 bits
\* ------------------------------------------------------------------------

\* i32::MIN and i32::MAX
MinI32 == -2147483647 - 1

MaxI32 == 2147483647

\* the elements the vecs of the model hold, by their bits: as i32 they are
\* i32::MIN, -1, 0 and 3; as f32 they are -0.0, a NaN, 0.0 and a subnormal
Elems == {MinI32, -1, 0, 3}

\* the elements of a second operand
RhsElems == {-1, 0, 3}

AddOverflows(x, y) == IF y >= 0 THEN x > MaxI32 - y ELSE x < MinI32 - y

\* i32::wrapping_add
wrapping_add(x, y) ==
    IF ~AddOverflows(x, y) THEN x + y
    ELSE IF y >= 0 THEN (x + MinI32) + (y + MinI32)
    ELSE (x - MinI32) + (y - MinI32)

SubOverflows(x, y) == IF y >= 0 THEN x < MinI32 + y ELSE x > MaxI32 + y

\* i32::wrapping_sub
wrapping_sub(x, y) ==
    IF ~SubOverflows(x, y) THEN x - y
    ELSE IF y >= 0 THEN (x - MinI32) - (y + MinI32)
    ELSE (x + MinI32) - (y - MinI32)

\* x * k for k in 0..15, from x, 2x, 4x and 8x
MulNibble(x, k) ==
    LET x2 == wrapping_add(x, x)
        x4 == wrapping_add(x2, x2)
        x8 == wrapping_add(x4, x4)
    IN  wrapping_add(wrapping_add(IF (k \div 8) % 2 = 1 THEN x8 ELSE 0,
                                  IF (k \div 4) % 2 = 1 THEN x4 ELSE 0),
                     wrapping_add(IF (k \div 2) % 2 = 1 THEN x2 ELSE 0,
                                  IF k % 2 = 1 THEN x ELSE 0))

RECURSIVE wrapping_mul(_, _)
\* i32::wrapping_mul, four bits of y after four bits
wrapping_mul(x, y) ==
    IF y = 0 THEN 0
    ELSE IF y = -1 THEN wrapping_sub(0, x)
    ELSE LET m == wrapping_mul(x, y \div 16)
         IN  IF m = 0 THEN MulNibble(x, y % 16)
             ELSE wrapping_add(MulNibble(m, 8), wrapping_add(MulNibble(m, 8), MulNibble(x, y % 16)))

\* x / p rounded towards zero, for p > 0
TruncDivPos(x, p) ==
    IF x >= 0 \/ x % p = 0 THEN x \div p ELSE (x \div p) + 1

\* x / y rounded towards zero, for y # 0 and (x, y) # (i32::MIN, -1)
TruncDiv(x, y) ==
    IF y > 0 THEN TruncDivPos(x, y)
    ELSE IF y = MinI32 THEN (IF x = MinI32 THEN 1 ELSE 0)
    ELSE -TruncDivPos(x, -y)

MulOverflows(x, y) ==
    IF x = 0 \/ y = 0 THEN FALSE
    ELSE IF x > 0 /\ y > 0 THEN x > MaxI32 \div y
    ELSE IF x > 0 THEN y < TruncDivPos(MinI32, x)
    ELSE IF y > 0 THEN x < TruncDivPos(MinI32, y)
    ELSE IF x = MinI32 \/ y = MinI32 THEN TRUE
    ELSE (-x) > MaxI32 \div (-y)

\* does `x << y` or `x >> y` overflow: the shift is not in 0..31
ShiftOverflows(y) == y < 0 \/ y >= 32

\* 1 << k as an i32, for k in 0..31
Pow2(k) == IF k = 31 THEN MinI32 ELSE 2 ^ k

\* x << k for k in 0..31, the bits shifted out lost
wrapping_shl(x, k) == wrapping_mul(x, Pow2(k))

\* x >> k for k in 0..31, the sign bit shifted in
wrapping_shr(x, k) == IF k = 31 THEN (IF x < 0 THEN -1 ELSE 0) ELSE x \div Pow2(k)

\* one bit of bitand, bitor, bitxor
Bit(f, p, q) ==
    IF f = "bitand" THEN p /\ q
    ELSE IF f = "bitor" THEN p \/ q
    ELSE p # q

\* bit k of x in two's complement, as a number
BitAt(x, k) == (x \div (2 ^ k)) % 2

\* bit k of the result, as a number
BitOf(f, x, y, k) == IF Bit(f, BitAt(x, k) = 1, BitAt(y, k) = 1) THEN 1 ELSE 0

RECURSIVE Bitwise(_, _, _)
\* x & y, x | y, x ^ y in two's complement, four bits after four bits
Bitwise(f, x, y) ==
    IF x \in {0, -1} /\ y \in {0, -1}
    THEN IF Bit(f, x = -1, y = -1) THEN -1 ELSE 0
    ELSE 16 * Bitwise(f, x \div 16, y \div 16)
         + 8 * BitOf(f, x, y, 3) + 4 * BitOf(f, x, y, 2)
         + 2 * BitOf(f, x, y, 1) + BitOf(f, x, y, 0)

\* the value an element operation returns
Returns(v) == [panic |-> "none", val |-> v]

\* the panic an element operation ends in
Panics(msg) == [panic |-> msg, val |-> 0]

\* the functions impl_bin_ops_for_vec generates
BinOps == {"add", "sub", "mul", "div", "rem", "shr", "shl", "bitand", "bitor", "bitxor"}

\* the closures given to apply_binary: `|a, b| a * b` of its documentation,
\* and one that no operator trait provides
Closures == {"mul", "min"}

\* f(x, y) for T = i32: T::add(a, b) and so on; `checks` tells whether the
\* build has overflow checks
ElemOp(f, x, y, checks) ==
    IF f = "add" THEN
        IF checks /\ AddOverflows(x, y) THEN Panics("attempt to add with overflow")
        ELSE Returns(wrapping_add(x, y))
    ELSE IF f = "sub" THEN
        IF checks /\ SubOverflows(x, y) THEN Panics("attempt to subtract with overflow")
        ELSE Returns(wrapping_sub(x, y))
    ELSE IF f = "mul" THEN
        IF checks /\ MulOverflows(x, y) THEN Panics("attempt to multiply with overflow")
        ELSE Returns(wrapping_mul(x, y))
    ELSE IF f = "div" THEN
        IF y = 0 THEN Panics("attempt to divide by zero")
        ELSE IF x = MinI32 /\ y = -1 THEN Panics("attempt to divide with overflow")
        ELSE Returns(TruncDiv(x, y))
    ELSE IF f = "rem" THEN
        IF y = 0 THEN Panics("attempt to calculate the remainder with a divisor of zero")
        ELSE IF x = MinI32 /\ y = -1 THEN Panics("attempt to calculate the remainder with overflow")
        ELSE Returns(x - y * TruncDiv(x, y))
    ELSE IF f = "shl" THEN
        IF checks /\ ShiftOverflows(y) THEN Panics("attempt to shift left with overflow")
        ELSE Returns(wrapping_shl(x, y % 32))
    ELSE IF f = "shr" THEN
        IF checks /\ ShiftOverflows(y) THEN Panics("attempt to shift right with overflow")
        ELSE Returns(wrapping_shr(x, y % 32))
    ELSE IF f = "min" THEN Returns(IF x <= y THEN x ELSE y)
    ELSE Returns(Bitwise(f, x, y))

\* the bits of an f32 without its sign
Magnitude(bits) == IF bits >= 0 THEN bits ELSE bits - MinI32

\* f32::is_nan: the exponent all ones, the mantissa not zero
IsNaN(bits) == Magnitude(bits) > 2139095040

\* `a == b` of the element type: of i32, or of f32 (a NaN equals nothing,
\* 0.0 equals -0.0)
eq(ty, x, y) ==
    IF ty = "f32"
    THEN /\ ~IsNaN(x)
         /\ ~IsNaN(y)
         /\ (x = y \/ (Magnitude(x) = 0 /\ Magnitude(y) = 0))
    ELSE x = y

\* the predicates given to apply_binary_bool: `eq` at T = i32 and at T = f32,
\* and `|a, b| a < b` at T = i32
BinaryPreds == {"eq_i32", "eq_f32", "lt"}

BinaryPred(p, x, y) ==
    IF p = "eq_i32" THEN eq("i32", x, y)
    ELSE IF p = "eq_f32" THEN eq("f32", x, y)
    ELSE x < y

\* the predicates given to apply_unary_bool: `|e| e % 2 == 0` of its
\* documentation, and `|e| e < 0`
UnaryPreds == {"even", "negative"}

UnaryPred(p, x) == IF p = "even" THEN x % 2 = 0 ELSE x < 0

\* ------------------------------------------------------------------------
\* math::vec: single, get_unchecked, the apply_* loops, the operators
\* ------------------------------------------------------------------------

\* a vec whose last slot is left as it was
single_ShortByOne(value, n) ==
    [cells |-> [i \in 1..n |-> IF i < n THEN [init |-> TRUE, val |-> value, writes |-> 1]
                               ELSE [init |-> FALSE, val |-> 0, writes |-> 0]],
     refs |-> {}]

\* vec::single(value): Self([value; N])
single(value, n) ==
    [cells |-> [i \in 1..n |-> [init |-> TRUE, val |-> value, writes |-> 1]],
     refs |-> {}]

\* vec::get_unchecked(idx): the address of slot idx of the vec at address 0
get_unchecked(idx) == 0 + idx * SizeOfT

\* core::ptr::read(address) from the vec v; every address the loops read is
\* one of v
read(v, address) == v[address \div SizeOfT + 1]

RECURSIVE ApplyBinaryFrom(_, _, _, _, _, _)
\* the loop `while i < N` of apply_binary, from i on; m is `result`
ApplyBinaryFrom(lhs, other, f, checks, m, i) ==
    IF i < Len(lhs)
    THEN LET calculated == ElemOp(f, read(lhs, get_unchecked(i)),
                                  read(other, get_unchecked(i)), checks)
             r == get_unchecked_mut(m, i)
         IN  IF calculated.panic # "none"
             THEN [panic |-> calculated.panic, m |-> m]
             ELSE ApplyBinaryFrom(lhs, other, f, checks,
                                  Write(r.m, r.ptr, calculated.val), i + 1)
    ELSE [panic |-> "none", m |-> m]

\* an apply_binary that gives the operands to `op` the other way round
apply_binary_Swapped(lhs, other, f, checks) ==
    ApplyBinaryFrom(other, lhs, f, checks, uninit(Len(lhs)), 0)

\* vec::apply_binary(self, rhs, op)
apply_binary(lhs, other, f, checks) ==
    ApplyBinaryFrom(lhs, other, f, checks, uninit(Len(lhs)), 0)

\* the closures given to apply_unary and modify_unary: `|e| -e` and `|e| !e`
UnaryOps == {"neg", "not"}

\* op(elem) for T = i32
UnaryOp(u, x, checks) ==
    IF u = "neg"
    THEN IF x = MinI32
         THEN IF checks THEN Panics("attempt to negate with overflow") ELSE Returns(MinI32)
         ELSE Returns(-x)
    ELSE Returns(Bitwise("bitxor", x, -1))

RECURSIVE apply_binary_single(_, _, _, _, _, _)
\* vec::apply_binary_single(self, rhs, op), its loop from i on; m is `result`
apply_binary_single(lhs, value, f, checks, m, i) ==
    IF i < Len(lhs)
    THEN LET calculated == ElemOp(f, read(lhs, get_unchecked(i)), value, checks)
             r == get_unchecked_mut(m, i)
         IN  IF calculated.panic # "none"
             THEN [panic |-> calculated.panic, m |-> m]
             ELSE apply_binary_single(lhs, value, f, checks,
                                      Write(r.m, r.ptr, calculated.val), i + 1)
    ELSE [panic |-> "none", m |-> m]

RECURSIVE apply_unary(_, _, _, _, _)
\* vec::apply_unary(self, op), its loop from i on; m is `result`
apply_unary(lhs, u, checks, m, i) ==
    IF i < Len(lhs)
    THEN LET calculated == UnaryOp(u, read(lhs, get_unchecked(i)), checks)
             r == get_unchecked_mut(m, i)
         IN  IF calculated.panic # "none"
             THEN [panic |-> calculated.panic, m |-> m]
             ELSE apply_unary(lhs, u, checks, Write(r.m, r.ptr, calculated.val), i + 1)
    ELSE [panic |-> "none", m |-> m]

RECURSIVE modify_binary_Swapped(_, _, _, _, _)
\* a modify_binary that gives the operands to `op` the other way round
modify_binary_Swapped(lhs, other, f, checks, i) ==
    IF i < Len(lhs)
    THEN LET calculated == ElemOp(f, read(other, get_unchecked(i)),
                                  read(lhs, get_unchecked(i)), checks)
         IN  IF calculated.panic # "none"
             THEN [panic |-> calculated.panic, v |-> lhs]
             ELSE modify_binary_Swapped([lhs EXCEPT ![i + 1] = calculated.val],
                                        other, f, checks, i + 1)
    ELSE [panic |-> "none", v |-> lhs]

RECURSIVE modify_binary(_, _, _, _, _)
\* vec::modify_binary(&mut self, rhs, op), its loop from i on: lhs is *self,
\* written in place at the address read from (`into` of T into T gives its
\* argument); a panic of op leaves *self as the loop has made it by then
modify_binary(lhs, other, f, checks, i) ==
    IF i < Len(lhs)
    THEN LET a_address == get_unchecked(i)
             calculated == ElemOp(f, read(lhs, a_address),
                                  read(other, get_unchecked(i)), checks)
         IN  IF calculated.panic # "none"
             THEN [panic |-> calculated.panic, v |-> lhs]
             ELSE modify_binary([lhs EXCEPT ![a_address \div SizeOfT + 1] = calculated.val],
                                other, f, checks, i + 1)
    ELSE [panic |-> "none", v |-> lhs]

RECURSIVE modify_binary_single(_, _, _, _, _)
\* vec::modify_binary_single(&mut self, rhs, op), its loop from i on
modify_binary_single(lhs, value, f, checks, i) ==
    IF i < Len(lhs)
    THEN LET address == get_unchecked(i)
             calculated == ElemOp(f, read(lhs, address), value, checks)
         IN  IF calculated.panic # "none"
             THEN [panic |-> calculated.panic, v |-> lhs]
             ELSE modify_binary_single([lhs EXCEPT ![address \div SizeOfT + 1] = calculated.val],
                                       value, f, checks, i + 1)
    ELSE [panic |-> "none", v |-> lhs]

RECURSIVE modify_unary(_, _, _, _)
\* vec::modify_unary(&mut self, op), its loop from i on
modify_unary(lhs, u, checks, i) ==
    IF i < Len(lhs)
    THEN LET address == get_unchecked(i)
             calculated == UnaryOp(u, read(lhs, address), checks)
         IN  IF calculated.panic # "none"
             THEN [panic |-> calculated.panic, v |-> lhs]
             ELSE modify_unary([lhs EXCEPT ![address \div SizeOfT + 1] = calculated.val],
                               u, checks, i + 1)
    ELSE [panic |-> "none", v |-> lhs]

RECURSIVE ApplyBinaryBoolFrom(_, _, _, _, _)
\* the loop of apply_binary_bool, from i on; `evals` lists the indices at
\* which op has been called
ApplyBinaryBoolFrom(lhs, other, p, i, evals) ==
    IF i < Len(lhs)
    THEN LET calculated == BinaryPred(p, read(lhs, get_unchecked(i)),
                                      read(other, get_unchecked(i)))
         IN  IF ~calculated
             THEN [bool |-> FALSE, evals |-> Append(evals, i)]
             ELSE ApplyBinaryBoolFrom(lhs, other, p, i + 1, Append(evals, i))
    ELSE [bool |-> TRUE, evals |-> evals]

RECURSIVE ApplyBinaryBoolFrom_NoReturn(_, _, _, _, _, _)
\* a loop that remembers a false and goes on to the end
ApplyBinaryBoolFrom_NoReturn(lhs, other, p, i, evals, all) ==
    IF i < Len(lhs)
    THEN ApplyBinaryBoolFrom_NoReturn(
             lhs, other, p, i + 1, Append(evals, i),
             all /\ BinaryPred(p, read(lhs, get_unchecked(i)), read(other, get_unchecked(i))))
    ELSE [bool |-> all, evals |-> evals]

apply_binary_bool_NoReturn(lhs, other, p) ==
    ApplyBinaryBoolFrom_NoReturn(lhs, other, p, 0, << >>, TRUE)

\* vec::apply_binary_bool(self, rhs, op)
apply_binary_bool(lhs, other, p) == ApplyBinaryBoolFrom(lhs, other, p, 0, << >>)

RECURSIVE ApplyUnaryBoolFrom(_, _, _, _)
\* the loop of apply_unary_bool, from i on
ApplyUnaryBoolFrom(lhs, p, i, evals) ==
    IF i < Len(lhs)
    THEN LET calculated == UnaryPred(p, read(lhs, get_unchecked(i)))
         IN  IF ~calculated
             THEN [bool |-> FALSE, evals |-> Append(evals, i)]
             ELSE ApplyUnaryBoolFrom(lhs, p, i + 1, Append(evals, i))
    ELSE [bool |-> TRUE, evals |-> evals]

\* vec::apply_unary_bool(self, op)
apply_unary_bool(lhs, p) == ApplyUnaryBoolFrom(lhs, p, 0, << >>)

\* an eq that compares the bits of the elements
PartialEq_eq_Bitwise(lhs, other, ty) == apply_binary_bool(lhs, other, "eq_i32")

\* <vec as PartialEq>::eq: self.apply_binary_bool(*other, eq)
PartialEq_eq(lhs, other, ty) ==
    apply_binary_bool(lhs, other, IF ty = "f32" THEN "eq_f32" ELSE "eq_i32")

\* the message of the panic of an array index out of bounds
BoundsMsg == "index out of bounds"

\* an index that gives the last slot when asked for one past the end
index_Clamped(v, i) ==
    IF i < Len(v) THEN [panic |-> "none", ref |-> Some(i)]
    ELSE IF Len(v) > 0 THEN [panic |-> "none", ref |-> Some(Len(v) - 1)]
    ELSE [panic |-> BoundsMsg, ref |-> None]

\* <vec as Index <usize>>::index and IndexMut::index_mut: &self.0[index],
\* the slot referenced
index(v, i) ==
    IF i < Len(v) THEN [panic |-> "none", ref |-> Some(i)]
    ELSE [panic |-> BoundsMsg, ref |-> None]

\* no call made yet, nothing returned yet
NoOp == [fn |-> "none", f |-> "none", ty |-> "i32", arg |-> 0, val |-> 0, checks |-> FALSE]

NoRet == [bool |-> FALSE, evals |-> << >>, ref |-> None, val |-> 0]

VecUnchanged == UNCHANGED <<chain, wb, builds, queue, control_flow, log, delivered, injected, N, args>>

\* `this op rhs`: the impl of Add, Sub, ... for vec that impl_bin_ops_for_vec
\* generates, self.apply_binary(rhs, add) and so on
BinOp ==
    /\ pc = "vec"
    /\ \E f \in BinOps, checks \in BOOLEAN :
        LET r == apply_binary(this, rhs, f, checks)
        IN  /\ op' = [NoOp EXCEPT !.fn = f, !.f = f, !.checks = checks]
            /\ IF r.panic # "none"
               THEN /\ pc' = "vec_panicked"
                    /\ outcome' = r.panic
                    /\ UNCHANGED result
               ELSE /\ pc' = "vec_returned"
                    /\ result' = r.m
                    /\ UNCHANGED outcome
    /\ UNCHANGED <<this, rhs, ret>>
    /\ VecUnchanged
    /\ UNCHANGED compVars
    /\ UNCHANGED macroVars

\* this.apply_binary(rhs, closure)
ApplyBinary ==
    /\ pc = "vec"
    /\ \E f \in Closures, checks \in BOOLEAN :
        LET r == apply_binary(this, rhs, f, checks)
        IN  /\ op' = [NoOp EXCEPT !.fn = "apply_binary", !.f = f, !.checks = checks]
            /\ IF r.panic # "none"
               THEN /\ pc' = "vec_panicked"
                    /\ outcome' = r.panic
                    /\ UNCHANGED result
               ELSE /\ pc' = "vec_returned"
                    /\ result' = r.m
                    /\ UNCHANGED outcome
    /\ UNCHANGED <<this, rhs, ret>>
    /\ VecUnchanged
    /\ UNCHANGED compVars
    /\ UNCHANGED macroVars

\* `this == rhs`, the elements being i32 or f32
PartialEq ==
    /\ pc = "vec"
    /\ \E ty \in {"i32", "f32"} :
        LET r == PartialEq_eq(this, rhs, ty)
        IN  /\ op' = [NoOp EXCEPT !.fn = "eq", !.ty = ty]
            /\ ret' = [NoRet EXCEPT !.bool = r.bool, !.evals = r.evals]
    /\ pc' = "vec_returned"
    /\ UNCHANGED <<this, rhs, result, outcome>>
    /\ VecUnchanged
    /\ UNCHANGED compVars
    /\ UNCHANGED macroVars

\* this.apply_binary_bool(rhs, predicate)
ApplyBinaryBool ==
    /\ pc = "vec"
    /\ \E p \in BinaryPreds :
        LET r == apply_binary_bool(this, rhs, p)
        IN  /\ op' = [NoOp EXCEPT !.fn = "apply_binary_bool", !.f = p]
            /\ ret' = [NoRet EXCEPT !.bool = r.bool, !.evals = r.evals]
    /\ pc' = "vec_returned"
    /\ UNCHANGED <<this, rhs, result, outcome>>
    /\ VecUnchanged
    /\ UNCHANGED compVars
    /\ UNCHANGED macroVars

\* this.apply_unary_bool(predicate)
ApplyUnaryBool ==
    /\ pc = "vec"
    /\ \E p \in UnaryPreds :
        LET r == apply_unary_bool(this, p)
        IN  /\ op' = [NoOp EXCEPT !.fn = "apply_unary_bool", !.f = p]
            /\ ret' = [NoRet EXCEPT !.bool = r.bool, !.evals = r.evals]
    /\ pc' = "vec_returned"
    /\ UNCHANGED <<this, rhs, result, outcome>>
    /\ VecUnchanged
    /\ UNCHANGED compVars
    /\ UNCHANGED macroVars

\* vec::<T, N>::single(value)
Single ==
    /\ pc = "vec"
    /\ \E value \in Elems :
        /\ op' = [NoOp EXCEPT !.fn = "single", !.val = value]
        /\ result' = single(value, N)
    /\ pc' = "vec_returned"
    /\ UNCHANGED <<this, rhs, ret, outcome>>
    /\ VecUnchanged
    /\ UNCHANGED compVars
    /\ UNCHANGED macroVars

\* `this[i]` read
Index ==
    /\ pc = "vec"
    /\ \E i \in 0..(MaxN + 1) :
        LET r == index(this, i)
        IN  /\ op' = [NoOp EXCEPT !.fn = "index", !.arg = i]
            /\ IF r.panic # "none"
               THEN /\ pc' = "vec_panicked"
                    /\ outcome' = r.panic
                    /\ UNCHANGED ret
               ELSE /\ pc' = "vec_returned"
                    /\ ret' = [NoRet EXCEPT !.ref = r.ref, !.val = this[r.ref[1] + 1]]
                    /\ UNCHANGED outcome
    /\ UNCHANGED <<this, rhs, result>>
    /\ VecUnchanged
    /\ UNCHANGED compVars
    /\ UNCHANGED macroVars

\* `this[i] = value`
IndexMut ==
    /\ pc = "vec"
    /\ \E i \in 0..(MaxN + 1), value \in Elems :
        LET r == index(this, i)
        IN  /\ op' = [NoOp EXCEPT !.fn = "index_mut", !.arg = i, !.val = value]
            /\ IF r.panic # "none"
               THEN /\ pc' = "vec_panicked"
                    /\ outcome' = r.panic
                    /\ UNCHANGED <<this, ret>>
               ELSE /\ pc' = "vec_returned"
                    /\ this' = [this EXCEPT ![r.ref[1] + 1] = value]
                    /\ ret' = [NoRet EXCEPT !.ref = r.ref]
                    /\ UNCHANGED outcome
    /\ UNCHANGED <<rhs, result>>
    /\ VecUnchanged
    /\ UNCHANGED compVars
    /\ UNCHANGED macroVars

\* `this.modify_binary(rhs, f)`; `this op= rhs` is this call with the
\* function generated for the operator
ModifyBinary ==
    /\ pc = "vec"
    /\ \E f \in BinOps \cup Closures, checks \in BOOLEAN :
        LET r == modify_binary(this, rhs, f, checks, 0)
        IN  /\ op' = [NoOp EXCEPT !.fn = "modify_binary", !.f = f, !.checks = checks]
            /\ this' = r.v
            /\ pc' = IF r.panic # "none" THEN "vec_panicked" ELSE "vec_returned"
            /\ outcome' = r.panic
    /\ UNCHANGED <<rhs, ret, result>>
    /\ VecUnchanged
    /\ UNCHANGED compVars
    /\ UNCHANGED macroVars

\* `this.modify_binary_single(value, f)`; `this op= value`
ModifyBinarySingle ==
    /\ pc = "vec"
    /\ \E f \in BinOps \cup Closures, value \in RhsElems, checks \in BOOLEAN :
        LET r == modify_binary_single(this, value, f, checks, 0)
        IN  /\ op' = [NoOp EXCEPT !.fn = "modify_binary_single", !.f = f, !.val = value,
                                  !.checks = checks]
            /\ this' = r.v
            /\ pc' = IF r.panic # "none" THEN "vec_panicked" ELSE "vec_returned"
            /\ outcome' = r.panic
    /\ UNCHANGED <<rhs, ret, result>>
    /\ VecUnchanged
    /\ UNCHANGED compVars
    /\ UNCHANGED macroVars

\* `this.modify_unary(u)`
ModifyUnary ==
    /\ pc = "vec"
    /\ \E u \in UnaryOps, checks \in BOOLEAN :
        LET r == modify_unary(this, u, checks, 0)
        IN  /\ op' = [NoOp EXCEPT !.fn = "modify_unary", !.f = u, !.checks = checks]
            /\ this' = r.v
            /\ pc' = IF r.panic # "none" THEN "vec_panicked" ELSE "vec_returned"
            /\ outcome' = r.panic
    /\ UNCHANGED <<rhs, ret, result>>
    /\ VecUnchanged
    /\ UNCHANGED compVars
    /\ UNCHANGED macroVars

\* ------------------------------------------------------------------------
\* rokoko_macro::window_builder_create and the create it generates
\* ------------------------------------------------------------------------

\* the largest number of #[conflict] attributes on a data field
MaxAttrs == 2

\* the names of the data fields declared, in the order of their declarations
Lowers == <<"size", "maximized">>

\* wb_statics::Data: a data field with its #[conflict]s and #[require]s, each
\* in the order written (every field here has a #[usage] and no #[default])
Data_add(lower, conflict, require) ==
    [lower |-> lower, conflict |-> conflict, require |-> require]

\* Pair::new
Pair_new(a, b) == [a |-> a, b |-> b]

\* <Pair as PartialEq>::eq
Pair_eq(p, q) == (p.a = q.a /\ p.b = q.b) \/ (p.a = q.b /\ p.b = q.a)

\* full.iter().enumerate().find(|(_, p)| p.lower == *conflict).0
Find(decls, lower) ==
    CHOOSE i \in 0..(Len(decls) - 1) :
        /\ decls[i + 1].lower = lower
        /\ \A j \in 0..(i - 1) : decls[j + 1].lower # lower

\* the message of the assert generated for a conflict
CannotHaveBoth(conflict, lower) ==
    "cannot have both '" \o conflict \o "' and '" \o lower \o "'"

\* the message of the assert generated for a requirement
Requires(lower, require) ==
    lower \o " requires " \o require \o ", which is not specified"

\* the message of the panic of the expansion
OnlyOneOf(a, b) ==
    "only one of '" \o a \o "', '" \o b \o "' specifies that they conflict"

RECURSIVE Conflicts(_, _, _, _)
\* the loops over `full` and over `one.conflict`, from field idx and its
\* conflict k on: conflicts_to_be_checked and the string `conflicts`
Conflicts(decls, idx, k, acc) ==
    IF idx >= Len(decls) THEN acc
    ELSE IF k >= Len(decls[idx + 1].conflict) THEN Conflicts(decls, idx + 1, 0, acc)
    ELSE LET conflict == decls[idx + 1].conflict[k + 1]
             pair == Pair_new(idx, Find(decls, conflict))
             found == {c \in 1..Len(acc.to_be_checked) :
                           Pair_eq(acc.to_be_checked[c].pair, pair)}
         IN  IF found # {}
             THEN LET c == CHOOSE c \in found : \A d \in found : c <= d
                  IN  Conflicts(decls, idx, k + 1,
                          [acc EXCEPT !.to_be_checked[c].met = (@ + 1) % 256])
             ELSE Conflicts(decls, idx, k + 1,
                      [to_be_checked |-> Append(acc.to_be_checked, [pair |-> pair, met |-> 1]),
                       conflicts |-> Append(acc.conflicts,
                           [a |-> conflict, b |-> decls[idx + 1].lower,
                            msg |-> CannotHaveBoth(conflict, decls[idx + 1].lower)])])

RECURSIVE Requirements(_, _, _)
\* the string `requirements`: one assert for each #[require] of each field
Requirements(decls, idx, k) ==
    IF idx >= Len(decls) THEN << >>
    ELSE IF k >= Len(decls[idx + 1].require) THEN Requirements(decls, idx + 1, 0)
    ELSE <<[lower |-> decls[idx + 1].lower, require |-> decls[idx + 1].require[k + 1],
            msg |-> Requires(decls[idx + 1].lower, decls[idx + 1].require[k + 1])]>>
         \o Requirements(decls, idx, k + 1)

\* the parts that the template of the generated create is filled with, in
\* its order
Template == <<"data", "requirements", "build", "unique_init", "run">>

\* nothing generated
NoCreate == [conflicts |-> << >>, requirements |-> << >>, body |-> << >>]

\* the expansion of window_builder_create!(): a panic, or the strings made
\* and the body of create
window_builder_create(decls) ==
    LET acc == Conflicts(decls, 0, 0, [to_be_checked |-> << >>, conflicts |-> << >>])
        unmet == {c \in 1..Len(acc.to_be_checked) : acc.to_be_checked[c].met # 2}
    IN  IF unmet # {}
        THEN LET c == CHOOSE c \in unmet : \A d \in unmet : c <= d
                 pair == acc.to_be_checked[c].pair
             IN  [panic |-> OnlyOneOf(decls[pair.a + 1].lower, decls[pair.b + 1].lower),
                  create |-> NoCreate]
        ELSE [panic |-> "none",
              create |-> [conflicts |-> acc.conflicts,
                          requirements |-> Requirements(decls, 0, 0),
                          body |-> Template]]

\* the asserts of one part of the body of the generated create that fail,
\* in the order of the asserts
FailedAsserts(g, part, data) ==
    IF part = "conflicts"
    THEN SelectSeq(g.conflicts, LAMBDA c : ~(c.a \notin data \/ c.b \notin data))
    ELSE IF part = "requirements"
    THEN SelectSeq(g.requirements, LAMBDA r : ~(r.lower \notin data \/ r.require \in data))
    ELSE << >>

RECURSIVE FirstPanic(_, _, _)
\* the first assert of the body that fails, from part i on
FirstPanic(g, i, data) ==
    IF i > Len(g.body) THEN None
    ELSE IF FailedAsserts(g, g.body[i], data) # << >>
    THEN Some(FailedAsserts(g, g.body[i], data)[1].msg)
    ELSE FirstPanic(g, i + 1, data)

\* `builder = builder{usage}` for every field present, in declaration order
Usages(decls, data) ==
    LET used == SelectSeq(decls, LAMBDA one : one.lower \in data)
    IN  [i \in 1..Len(used) |-> [op |-> "usage", arg |-> used[i].lower]]

\* window_builder_create!() expanded over the declarations
WindowBuilderCreate ==
    /\ pc = "macro"
    /\ LET r == window_builder_create(full)
       IN  /\ generated' = r.create
           /\ outcome' = r.panic
           /\ pc' = IF r.panic # "none" THEN "expansion_panicked" ELSE "expanded"
    /\ UNCHANGED <<chain, wb, builds, queue, control_flow, log, delivered, injected>>
    /\ UNCHANGED <<full, present>>
    /\ UNCHANGED compVars
    /\ UNCHANGED newVars
    /\ UNCHANGED vecVars

\* the generated create called on a chain with the fields `data`, up to the
\* call of event_loop.run
GeneratedCreate ==
    /\ pc = "expanded"
    /\ \E data \in SUBSET {Lowers[i] : i \in 1..Len(Lowers)}, built \in BuildResults :
        /\ present' = data
        /\ IF FirstPanic(generated, 1, data) # None
           THEN /\ pc' = "generated_panicked"
                /\ outcome' = FirstPanic(generated, 1, data)[1]
                /\ wb' = Usages(full, data)
                /\ UNCHANGED builds
           ELSE /\ wb' = Usages(full, data) \o <<[op |-> "build", arg |-> built]>>
                /\ builds' = builds + 1
                /\ IF Try(built) # None
                   THEN /\ pc' = "generated_failed"
                        /\ outcome' = Try(built)[1]
                   ELSE /\ pc' = "generated_running"
                        /\ UNCHANGED outcome
    /\ UNCHANGED <<chain, queue, control_flow, log, delivered, injected>>
    /\ UNCHANGED <<full, generated>>
    /\ UNCHANGED compVars
    /\ UNCHANGED newVars
    /\ UNCHANGED vecVars

\* ------------------------------------------------------------------------
\* Specification
\* ------------------------------------------------------------------------

\* Window::new(): WindowBuilder::empty()
WinInit ==
    /\ chain = Empty
    /\ wb = << >>
    /\ outcome = "none"
    /\ builds = 0
    /\ queue = << >>
    /\ control_flow = "Poll"
    /\ log = << >>
    /\ delivered = << >>
    /\ injected = 0

CompInit == comp = Empty /\ last = None /\ got = None

\* no vec::new in progress
NewIdle == N = 0 /\ args = Tuple(<< >>) /\ result = uninit(0)

\* the arguments and the size of a call of vec::new
NewInit ==
    /\ N \in 0..MaxSlots
    /\ args \in {Tuple(e) : e \in SeqsOf(Pieces, 0, MaxArgs)}
    /\ result = uninit(0)

\* no call on a vec in progress
VecIdle == this = << >> /\ rhs = << >> /\ op = NoOp /\ ret = NoRet

\* two vecs of the same size N, a call about to be made on the first
VecInit ==
    /\ N \in 0..MaxN
    /\ this \in [1..N -> Elems]
    /\ rhs \in [1..N -> RhsElems]
    /\ op = NoOp
    /\ ret = NoRet
    /\ args = Tuple(<< >>)
    /\ result = uninit(0)

\* no macro expanded
MacroIdle == full = << >> /\ generated = NoCreate /\ present = {}

\* the declarations window_builder_create finds: every field with up to
\* MaxAttrs #[conflict]s and up to one #[require]
MacroInit ==
    /\ full \in {[i \in 1..Len(Lowers) |-> Data_add(Lowers[i], c[i], r[i])] :
                    c \in [1..Len(Lowers) -> SeqsOf({Lowers[i] : i \in 1..Len(Lowers)}, 0, MaxAttrs)],
                    r \in [1..Len(Lowers) -> SeqsOf({Lowers[i] : i \in 1..Len(Lowers)}, 0, 1)]}
    /\ generated = NoCreate
    /\ present = {}

\* the program builds a window, or keeps a Component chain, or calls
\* vec::new, or calls a method or an operator of a vec, or is the compiler
\* expanding window_builder_create and then the program calling its create
Init ==
    /\ WinInit
    /\ CompInit
    /\ \/ pc \in {"building", "component"} /\ NewIdle /\ VecIdle /\ MacroIdle
       \/ pc = "new" /\ NewInit /\ VecIdle /\ MacroIdle
       \/ pc = "vec" /\ VecInit /\ MacroIdle
       \/ pc = "macro" /\ NewIdle /\ VecIdle /\ MacroInit

Next ==
    \/ Title
    \/ Size
    \/ Maximized
    \/ SizeIsLogical
    \/ OnClose
    \/ OnInit
    \/ OnExit
    \/ Create
    \/ WindowEvent
    \/ Dispatch
    \/ Halt
    \/ CompWith
    \/ CompWrite
    \/ CompGetMut
    \/ New
    \/ BinOp
    \/ ApplyBinary
    \/ PartialEq
    \/ ApplyBinaryBool
    \/ ApplyUnaryBool
    \/ Single
    \/ Index
    \/ IndexMut
    \/ ModifyBinary
    \/ ModifyBinarySingle
    \/ ModifyUnary
    \/ WindowBuilderCreate
    \/ GeneratedCreate

Spec == Init /\ [][Next]_vars

\* event_loop.run hands every event sent to it to the closure, a user event
\* sent through the proxy included, and leaves once the closure has set
\* ControlFlow::Exit
FairSpec == Spec /\ WF_vars(Dispatch) /\ WF_vars(Halt)

\* ------------------------------------------------------------------------
\* Vocabulary of the properties
\* ------------------------------------------------------------------------

\* the tag of a node: the data struct, or the callback id of a container
TagOf(n) == IF n.ty = "FnContainer" THEN n.id ELSE n.ty

\* the nodes of a chain that carry tag t
Positions(c, t) == {i \in 1..Len(c) : TagOf(c[i]) = t}

Has(t) == Positions(chain, t) # {}

Distinct(c) == \A i, j \in 1..Len(c) : i # j => TagOf(c[i]) # TagOf(c[j])

\* the node of S nearest the head
First(S) == CHOOSE i \in S : \A j \in S : i <= j

\* create has been called
Created == pc \in {"panicked", "failed", "running", "halted"}

\* the entries of the trace that are invocations of callback E
Invocations(E) == {k \in 1..Len(log) : log[k].ev = E}

\* the counter a registered callback starts with
InitialCounter(cb) == (CHOOSE x \in Callbacks : x.id = cb.id).counter

\* ------------------------------------------------------------------------
\* Properties
\* ------------------------------------------------------------------------

\* C1: in a chain whose nodes have pairwise distinct tags, the lookup of the
\* tag of each node (GetData::get, GetFn::get, Component::get) returns that
\* node's value, and the lookup of a tag no node has returns None.
C1_LookupReturnsInserted ==
    /\ Distinct(chain) =>
        /\ \A i \in 1..Len(chain) :
            IF chain[i].ty = "FnContainer"
            THEN GetFn(chain, chain[i].id) = Some(i)
            ELSE GetData(chain, chain[i].ty) = Some(chain[i].val)
        /\ \A T \in DataTags : ~Has(T) => GetData(chain, T) = None
        /\ \A E \in CallbackIds : ~Has(E) => GetFn(chain, E) = None
    /\ Distinct(comp) =>
        /\ \A i \in 1..Len(comp) : ComponentGet(comp, comp[i].ty) = Some(i)
        /\ \A T \in CompTypes : Positions(comp, T) = {} => ComponentGet(comp, T) = None

\* a builder chain of three nodes with distinct tags, data and callbacks mixed
C1_Witness ==
    /\ pc = "building"
    /\ Len(chain) = 3
    /\ Distinct(chain)
    /\ chain[1].ty = "Title"
    /\ chain[2].ty = "FnContainer"
    /\ chain[3].ty = "Size"

\* C2: when several nodes carry the same tag, lookup returns the one nearest
\* the head, and every callback create invokes is the one of the node nearest
\* the head among those registered for its event.
C2_NearestHeadWins ==
    /\ \A T \in DataTags :
        Has(T) => GetData(chain, T) = Some(chain[First(Positions(chain, T))].val)
    /\ \A E \in CallbackIds :
        Has(E) => GetFn(chain, E) = Some(First(Positions(chain, E)))
    /\ \A T \in CompTypes :
        Positions(comp, T) # {} => ComponentGet(comp, T) = Some(First(Positions(comp, T)))
    /\ \A k \in 1..Len(log) :
        log[k].ev \in CallbackIds => log[k].node = First(Positions(chain, log[k].ev))

\* on_close registered twice with different callbacks, and a close request
\* handled
C2_Witness ==
    /\ Len(chain) >= 2
    /\ chain[1].ty = "FnContainer" /\ chain[1].id = "OnClose"
    /\ chain[2].ty = "FnContainer" /\ chain[2].id = "OnClose"
    /\ chain[1].val.id # chain[2].val.id
    /\ Invocations("OnClose") # {}

\* C3: a value written through the mutable lookup of T is the value the next
\* lookup of T returns, and nothing else in the chain changes.  For
\* Component::get_mut the write is explicit; for GetFn::get it is the state a
\* counting callback keeps between its calls.
C3_WriteThenLookup ==
    /\ last # None =>
        LET w == last[1]
            r == ComponentGet(comp, w.ty)
        IN  /\ r # None
            /\ comp[r[1]].val = w.val
            /\ Len(comp) = Len(w.before)
            /\ \A j \in 1..Len(comp) : j # r[1] => comp[j] = w.before[j]
    /\ \A E \in CallbackIds :
        GetFn(chain, E) # None =>
            LET cb == chain[GetFn(chain, E)[1]].val
            IN  cb.counter = IF cb.mode = "counter"
                             THEN InitialCounter(cb) - Cardinality(Invocations(E))
                             ELSE InitialCounter(cb)
    /\ \A j \in 1..Len(chain) :
        (chain[j].ty = "FnContainer" /\ GetFn(chain, chain[j].id) # Some(j)) =>
            chain[j].val.counter = InitialCounter(chain[j].val)

\* a write through get_mut into a chain that holds the written type twice
C3_Witness ==
    /\ last # None
    /\ Cardinality(Positions(comp, last[1].ty)) = 2
    /\ Len(comp) = 3
    /\ \E j \in Positions(last[1].before, last[1].ty) : last[1].before[j].val # last[1].val

\* C6: create panics with the message about `size` and `maximized` exactly
\* when the chain holds both a Size and a Maximized node.
C6_SizeMaximizedConflict ==
    Created =>
        ((pc = "panicked" /\ outcome = ConflictMsg) <=> (Has("Size") /\ Has("Maximized")))

\* maximized() called first, size() after it, then create
C6_Witness ==
    /\ pc = "panicked"
    /\ outcome = ConflictMsg
    /\ Len(chain) = 2
    /\ chain[1].ty = "Size"
    /\ chain[2].ty = "Maximized"

\* the size given to with_inner_size, if it was called
InnerSize == {wb[k].arg.unit : k \in {j \in 1..Len(wb) : wb[j].op = "with_inner_size"}}

\* C7 as stated: create fails when size_is_logical is present without size;
\* with both it passes validation with the logical size; with size alone it
\* applies the physical size.
C7_Original ==
    Created =>
        /\ (Has("SizeIsLogical") /\ ~Has("Size")) => pc = "panicked"
        /\ (Has("SizeIsLogical") /\ Has("Size")) =>
            (pc # "panicked" /\ InnerSize = {"Logical"})
        /\ (Has("Size") /\ ~Has("SizeIsLogical")) => InnerSize = {"Physical"}

\* C7 amended: create fails when size_is_logical is present without size;
\* with both, and maximized absent, it passes validation with the logical
\* size; with size alone, and maximized absent, it applies the physical size.
C7_RequirementAndSizeUnit ==
    Created =>
        /\ (Has("SizeIsLogical") /\ ~Has("Size")) =>
            (pc = "panicked" /\ outcome = RequireMsg)
        /\ (Has("SizeIsLogical") /\ Has("Size") /\ ~Has("Maximized")) =>
            (pc # "panicked" /\ InnerSize = {"Logical"})
        /\ (Has("Size") /\ ~Has("SizeIsLogical") /\ ~Has("Maximized")) =>
            (pc # "panicked" /\ InnerSize = {"Physical"})

\* size and size_is_logical both given, the window built
C7_Witness ==
    /\ pc = "running"
    /\ Has("SizeIsLogical")
    /\ Has("Size")
    /\ InnerSize = {"Logical"}

\* C8: when create gets past the construction of the window, a registered
\* on_init callback is invoked exactly once, as the first entry of the trace,
\* before any event is delivered; no event invokes it again.
C8_InitOnceFirst ==
    /\ pc \in {"running", "halted"} =>
        IF Has("OnInit")
        THEN /\ Cardinality(Invocations("OnInit")) = 1
             /\ log[1].ev = "OnInit"
             /\ log[1].at = 0
        ELSE Invocations("OnInit") = {}
    /\ pc \notin {"running", "halted"} => log = << >>

\* on_init and on_close registered, and a close request handled after the
\* initialization
C8_Witness ==
    /\ pc \in {"running", "halted"}
    /\ Has("OnInit")
    /\ Invocations("OnClose") # {}
    /\ Len(delivered) >= 2

\* the deliveries of UserEvent::Close
Closes_delivered == {k \in 1..Len(delivered) : delivered[k] = "Close"}

\* C9: on_exit runs exactly once, at the first Close event delivered, and no
\* callback is invoked for any event delivered after it.
C9_ExitOnceThenHalt ==
    IF Closes_delivered = {}
    THEN Invocations("OnExit") = {} /\ control_flow # "Exit"
    ELSE LET k == First(Closes_delivered)
         IN  /\ control_flow = "Exit"
             /\ Cardinality(Invocations("OnExit")) = IF Has("OnExit") THEN 1 ELSE 0
             /\ \A e \in Invocations("OnExit") : log[e].at = k
             /\ \A e \in 1..Len(log) : log[e].at <= k

\* close called from inside on_exit: a second Close event is delivered to a
\* loop that has already run on_exit
C9_Witness ==
    /\ Cardinality(Closes_delivered) >= 2
    /\ Cardinality(Invocations("OnExit")) = 1
    /\ \E e \in 1..Len(log) : log[e].ev = "close" /\ e > First(Invocations("OnExit"))

\* C10: once Window::close has been called, no on_close and no on_init
\* invocation follows.
C10_OnlyExitAfterClose ==
    \A i, j \in 1..Len(log) :
        (i < j /\ log[i].ev = "close") => log[j].ev \notin {"OnClose", "OnInit"}

RECURSIVE Flatten(_)
RECURSIVE FlattenAll(_, _)
\* the converted scalars of the first `upto` members, left to right
FlattenAll(elems, upto) ==
    IF upto = 0 THEN << >> ELSE FlattenAll(elems, upto - 1) \o Flatten(elems[upto])

\* the converted scalars of a piece, left to right
Flatten(p) ==
    IF p.k = "scalar" THEN <<From(p)>> ELSE FlattenAll(p.elems, Len(p.elems))

\* vec::new has been called
NewCalled == pc \in {"new_returned", "new_panicked"}

\* C4: when the slot counts of the pieces sum to S <= N, slots 0..S-1 of the
\* vec returned hold the converted inputs in argument order, flattened left
\* to right, and slots S..N-1 hold the default of T.
C4_NewFillsInOrder ==
    (NewCalled /\ Len(Flatten(args)) <= N) =>
        /\ pc = "new_returned"
        /\ Len(result.cells) = N
        /\ \A i \in 1..N :
            /\ result.cells[i].init
            /\ result.cells[i].val = IF i <= Len(Flatten(args))
                                     THEN Flatten(args)[i]
                                     ELSE Default

\* a call such as ivec3::new((7u8, ()), [-1i8]): a tuple of two members and an
\* array fill slots 0 and 1, the default fills slot 2
C4_Witness ==
    /\ pc = "new_returned"
    /\ N = 3
    /\ Len(args.elems) = 2
    /\ args.elems[1].k = "tuple"
    /\ Len(args.elems[1].elems) = 2
    /\ args.elems[2].k = "array"
    /\ Len(Flatten(args)) = 2
    /\ Flatten(args)[2] = -1

\* C5: when the slot counts of the pieces sum to more than N, vec::new
\* panics with "too many args" and no slot of a result has been written; it
\* returns a vec only when the sum is at most N.
C5_TooManyArgsPanics ==
    NewCalled =>
        /\ (Len(Flatten(args)) > N) <=> (pc = "new_panicked")
        /\ pc = "new_panicked" => (outcome = TooManyMsg /\ result = uninit(0))
        /\ pc = "new_returned" => Len(result.cells) = N

\* four slots asked of a vec of three
C5_Witness ==
    /\ pc = "new_panicked"
    /\ N = 3
    /\ Len(Flatten(args)) = 4

\* the entry Window::close leaves in the trace
CloseEntry(at) == [ev |-> "close", id |-> 0, at |-> at, node |-> 0]

\* the closure handles a close request while the loop is running
HandlesCloseRequest ==
    /\ pc = "running"
    /\ control_flow # "Exit"
    /\ queue # << >>
    /\ Head(queue) = "CloseRequested"
    /\ delivered' = Append(delivered, "CloseRequested")

\* C11: on each close request delivered while the loop is running, if no
\* on_close callback is registered the framework calls Window::close itself;
\* if one is registered, that callback is invoked exactly once and the
\* framework does not call close: a Close event is queued only when the
\* callback calls close itself.
C11_DefaultCloseOnlyWithoutCallback ==
    [][HandlesCloseRequest =>
        LET at == Len(delivered) + 1
        IN  IF ~Has("OnClose")
            THEN /\ log' = Append(log, CloseEntry(at))
                 /\ queue' = Append(Tail(queue), "Close")
                 /\ chain' = chain
            ELSE LET i == First(Positions(chain, "OnClose"))
                     cb == chain[i].val
                     called == Append(log, [ev |-> "OnClose", id |-> cb.id, at |-> at, node |-> i])
                 IN  IF cb.mode = "close" \/ (cb.mode = "counter" /\ cb.counter = 1)
                     THEN /\ log' = Append(called, CloseEntry(at))
                          /\ queue' = Append(Tail(queue), "Close")
                     ELSE /\ log' = called
                          /\ queue' = Tail(queue)
    ]_vars

\* an on_close callback that does not close: two close requests handled, no
\* close called, the loop still waiting
C11_Witness ==
    /\ pc = "running"
    /\ control_flow = "Wait"
    /\ Has("OnClose")
    /\ Cardinality(Invocations("OnClose")) = 2
    /\ \A k \in 1..Len(log) : log[k].ev # "close"
    /\ queue = << >>

\* the calls of Window::close made by on_init, by on_close or by the default
\* close action: those not made while a Close event is handled
ClosesOutsideExit ==
    {n \in 1..Len(log) :
        /\ log[n].ev = "close"
        /\ (log[n].at = 0 \/ delivered[log[n].at] # "Close")}

\* the loop has halted, after one run of on_exit (if registered) that
\* follows every such call
HaltedAfterExit ==
    /\ pc = "halted"
    /\ Has("OnExit") =>
        /\ Cardinality(Invocations("OnExit")) = 1
        /\ \A n \in ClosesOutsideExit : \A e \in Invocations("OnExit") : n < e

\* C12: every call of Window::close made inside on_init, inside on_close or
\* by the default close action is eventually followed by one run of on_exit,
\* if registered, and then by the halt of the loop, the event loop delivering
\* the events queued.
C12_CloseLeadsToExitAndHalt == (ClosesOutsideExit # {}) ~> HaltedAfterExit

\* close called inside on_init, before the loop starts; on_exit has run and
\* the loop has halted
C12_Witness ==
    /\ pc = "halted"
    /\ Len(log) >= 3
    /\ log[1].ev = "OnInit"
    /\ log[2].ev = "close"
    /\ log[2].at = 0
    /\ Cardinality(Invocations("OnExit")) = 1

\* the function applied to the elements by the call made: the one of the
\* operator, or the closure given to apply_binary
Applied(o) == IF o.fn \in BinOps THEN o.fn ELSE o.f

\* C13: for vecs a and b of the same size N and every operator generated for
\* vec (add, sub, mul, div, rem, shr, shl, bitand, bitor, bitxor), the result
\* r of `a op b` has r[i] = a[i] op b[i] at every i in 0..N-1, and a and b
\* are unchanged; apply_binary(rhs, f) yields f(a[i], rhs[i]) at every index.
C13_BinaryOpsElementwise ==
    [][(pc = "vec" /\ pc' = "vec_returned" /\ op'.fn \in BinOps \cup {"apply_binary"}) =>
        /\ this' = this
        /\ rhs' = rhs
        /\ Len(result'.cells) = N
        /\ \A i \in 1..N :
            /\ result'.cells[i].init
            /\ result'.cells[i].val = ElemOp(Applied(op'), this[i], rhs[i], op'.checks).val
    ]_vars

\* [3, 0, -1] - [-1, 3, 3] = [4, -3, -4]
C13_Witness ==
    /\ pc = "vec_returned"
    /\ op.fn = "sub"
    /\ this = <<3, 0, -1>>
    /\ rhs = <<-1, 3, 3>>
    /\ result.cells[1].val = 4
    /\ result.cells[2].val = -3
    /\ result.cells[3].val = -4

\* `this == rhs` has been evaluated
EqCalled == pc = "vec_returned" /\ op.fn = "eq"

\* a[i] == b[i] at every index
ElementsEqual == \A i \in 1..N : eq(op.ty, this[i], rhs[i])

\* C14 as stated: `a == b` is true if and only if a[i] == b[i] at every i in
\* 0..N-1, and `a == a` is true for every vec a.
C14_Original ==
    EqCalled =>
        /\ ret.bool <=> ElementsEqual
        /\ this = rhs => ret.bool

\* C14 amended: `a == b` is true if and only if a[i] == b[i] at every i in
\* 0..N-1, and `a == a` is true for every vec a none of whose elements is a
\* NaN.
C14_EqElementwise ==
    EqCalled =>
        /\ ret.bool <=> ElementsEqual
        /\ (this = rhs /\ \A i \in 1..N : ~(op.ty = "f32" /\ IsNaN(this[i]))) => ret.bool

\* fvec2 [-0.0, 4e-45] == [0.0, 4e-45]: equal, though the bits differ
C14_Witness ==
    /\ EqCalled
    /\ op.ty = "f32"
    /\ this = <<MinI32, 3>>
    /\ rhs = <<0, 3>>
    /\ ret.bool

\* C15: for every value v and every size N, the vec single(v) builds has v at
\* every index 0..N-1.
C15_SingleFillsAll ==
    (pc = "vec_returned" /\ op.fn = "single") =>
        /\ Len(result.cells) = N
        /\ \A i \in 1..N : result.cells[i].init /\ result.cells[i].val = op.val

\* ivec3::single(-1)
C15_Witness ==
    /\ pc = "vec_returned"
    /\ op.fn = "single"
    /\ op.val = -1
    /\ N = 3
    /\ result.cells[3].val = -1

\* C16: checked indexed access v[i], read or write, on a vec of size N gives
\* slot i for every i < N, and for every i >= N fails with the bounds panic
\* and leaves the vec unchanged.
C16_CheckedIndex ==
    [][(pc = "vec" /\ op'.fn \in {"index", "index_mut"}) =>
        IF op'.arg < N
        THEN /\ pc' = "vec_returned"
             /\ ret'.ref = Some(op'.arg)
             /\ IF op'.fn = "index"
                THEN this' = this /\ ret'.val = this[op'.arg + 1]
                ELSE this' = [this EXCEPT ![op'.arg + 1] = op'.val]
        ELSE /\ pc' = "vec_panicked"
             /\ outcome' = BoundsMsg
             /\ this' = this
    ]_vars

\* `v[3] = x` on an ivec3
C16_Witness ==
    /\ pc = "vec_panicked"
    /\ outcome = BoundsMsg
    /\ op.fn = "index_mut"
    /\ op.arg = 3
    /\ N = 3

\* the predicate of the call made holds at index i
HoldsAt(i) ==
    IF op.fn = "apply_unary_bool" THEN UnaryPred(op.f, this[i + 1])
    ELSE BinaryPred(op.f, this[i + 1], rhs[i + 1])

\* the indices at which it does not
Failing == {i \in 0..(N - 1) : ~HoldsAt(i)}

\* C20: apply_binary_bool(rhs, p) returns true if and only if p(a[i], rhs[i])
\* holds at every i in 0..N-1 (true for N = 0); it calls p at the indices in
\* increasing order and at none after the first where p is false;
\* apply_unary_bool does the same with a unary predicate.
C20_BoolShortCircuit ==
    (pc = "vec_returned" /\ op.fn \in {"apply_binary_bool", "apply_unary_bool"}) =>
        /\ ret.bool <=> (Failing = {})
        /\ Len(ret.evals) = IF Failing = {} THEN N ELSE First(Failing) + 1
        /\ \A j \in 1..Len(ret.evals) : ret.evals[j] = j - 1

\* [3, -1, 0] < [0, 0, 3]: false at index 0, the predicate not called again
C20_Witness ==
    /\ pc = "vec_returned"
    /\ op.fn = "apply_binary_bool"
    /\ op.f = "lt"
    /\ this = <<3, -1, 0>>
    /\ rhs = <<0, 0, 3>>
    /\ ret.evals = <<0>>
    /\ ~ret.bool

\* the calls of `name` made on the external builder
Effects(name) == {k \in 1..Len(wb) : wb[k].op = name}

\* C17: if the construction of the external window fails, create returns
\* exactly that failure as its error, and the construction is attempted
\* exactly once in a create call that reaches it: there is no retry.
C17_BuildFailureReturnedOnce ==
    Created =>
        /\ builds = Cardinality(Effects("build"))
        /\ builds = IF pc = "panicked" THEN 0 ELSE 1
        /\ pc = "failed" => Effects("build") # {}
        /\ \A k \in Effects("build") :
            IF wb[k].arg = "Ok"
            THEN pc \in {"running", "halted"}
            ELSE pc = "failed" /\ outcome = wb[k].arg

\* the windowing system out of memory: create has returned that error and
\* has not called the on_init callback registered
C17_Witness ==
    /\ pc = "failed"
    /\ outcome = "OsError: out of memory"
    /\ builds = 1
    /\ Has("OnInit")
    /\ log = << >>

\* each effect is applied at most once, and the title is set to the stored
\* title, or to the default one
EffectsAtMostOnce ==
    /\ \A name \in {"with_title", "with_inner_size", "with_maximized"} :
        Cardinality(Effects(name)) <= 1
    /\ Cardinality(Effects("with_title")) = 1
    /\ \A k \in Effects("with_title") :
        wb[k].arg = IF Has("Title") THEN chain[First(Positions(chain, "Title"))].val
                    ELSE "rokoko window"
    /\ ~Has("Size") => Effects("with_inner_size") = {}
    /\ ~Has("Maximized") => Effects("with_maximized") = {}

\* the fields present have had their effect, with the value stored
PresentApplied ==
    /\ Has("Size") =>
        /\ Effects("with_inner_size") # {}
        /\ \A k \in Effects("with_inner_size") :
            LET stored == chain[First(Positions(chain, "Size"))].val
            IN  wb[k].arg = IF Has("SizeIsLogical") THEN LogicalSize(stored)
                            ELSE PhysicalSize(stored)
    /\ Has("Maximized") =>
        /\ Effects("with_maximized") # {}
        /\ \A k \in Effects("with_maximized") : wb[k].arg = TRUE

\* C18 as stated: in create each data field's effect is applied to the
\* external builder at most once: a present field applies its effect with
\* the stored value, an absent field with a default applies the default (the
\* title "rokoko window"), an absent field without a default applies none.
C18_Original == Created => (EffectsAtMostOnce /\ PresentApplied)

\* C18 amended: the same, the effect of a present size or maximized being
\* applied when create gets past its checks of `size` against `maximized`
\* and of `size_is_logical` against `size`.
C18_EffectsOnceWithDefaults ==
    Created =>
        /\ EffectsAtMostOnce
        /\ pc # "panicked" => PresentApplied

\* maximized() alone: the default title and the maximized effect, no size
C18_Witness ==
    /\ pc = "running"
    /\ ~Has("Title")
    /\ Has("Maximized")
    /\ wb[1] = [op |-> "with_title", arg |-> "rokoko window"]
    /\ Cardinality(Effects("with_maximized")) = 1
    /\ Effects("with_inner_size") = {}

\* C19: Window::new gives a builder around the Empty chain, and every
\* builder call, of a data field or of a callback, gives a chain whose head is
\* the node added and whose tail is the chain before the call, node for node
\* and value for value: the depth grows by one and no earlier node changes.
C19_BuilderPrepends ==
    /\ pc = "building" => chain = Empty
    /\ [][(pc = "building" /\ pc' = "building" /\ chain' # chain) =>
            /\ Len(chain') = Len(chain) + 1
            /\ Tail(chain') = chain
            /\ Head(chain').ty \in DataTags \cup {"FnContainer"}
       ]_vars

\* on_exit(..).maximized().on_close(..): three calls, three nodes, the first
\* call deepest
C19_Witness ==
    /\ pc = "building"
    /\ Len(chain) = 3
    /\ chain[1].ty = "FnContainer" /\ chain[1].id = "OnClose"
    /\ chain[2].ty = "Maximized"
    /\ chain[3].ty = "FnContainer" /\ chain[3].id = "OnExit"

\* the slot at an address
SlotOf(address) == address \div SizeOfT

\* the addresses of the slots lo .. hi - 1, in order
Slots(lo, hi) == [j \in 1..(hi - lo) |-> (lo + j - 1) * SizeOfT]

\* C21: in vec::new with S <= N slots given, every one of the N slots of
\* the result is written exactly once before the vec is returned: slots
\* S..N-1 by the default fill, T's default being evaluated once per such slot,
\* then slots 0..S-1 by embedding; none is left unwritten, none written twice.
C21_EverySlotWrittenOnce ==
    pc = "new_returned" =>
        LET S == Len(Flatten(args))
        IN  /\ \A i \in 1..N : result.cells[i].init /\ result.cells[i].writes = 1
            /\ result.defaults = N - S
            /\ result.order = Slots(S, N) \o Slots(0, S)

\* a call such as ivec4::new([7u8, 200u8]): two slots embedded, two defaults
C21_Witness ==
    /\ pc = "new_returned"
    /\ N = 4
    /\ Flatten(args) = <<7, 200>>
    /\ result.defaults = 2
    /\ result.order = <<8, 12, 0, 4>>

\* C22: in vec::new, for every S <= N, S = N included, the index given to
\* get_unchecked_mut for the pointer of the default fill, and every slot
\* accessed afterwards, are within 0..N-1 of the result.
C22_IndicesInBounds ==
    pc = "new_returned" =>
        /\ \A a \in result.refs : SlotOf(a) \in 0..(N - 1)
        /\ \A j \in 1..Len(result.order) : SlotOf(result.order[j]) \in 0..(N - 1)

\* the number of slots before member k of a tuple (k counted from 1)
Before(elems, k) == Len(FlattenAll(elems, k - 1))

\* piece p embedded alone at offset o of a vec of N slots, none of which
\* was written before
Alone(p, o) == embed(p, uninit(N), offset(0, o))

\* piece p embedded at offset o has written the slots o .. o + n - 1, once
\* each and in order, and no other; its members of the sizes given by `at`
\* lie one after the other in them, and so they do in the vec returned
Laid(p, o, n) ==
    LET m == Alone(p, o)
    IN  /\ PieceN(p) = n
        /\ m.order = Slots(o, o + n)
        /\ m.refs = {}
        /\ \A i \in 1..N : m.cells[i].init <=> i \in (o + 1)..(o + n)
        /\ \A k \in 1..Len(p.elems) :
            LET member == Flatten(p.elems[k])
            IN  \A t \in 1..Len(member) :
                    /\ m.cells[o + Before(p.elems, k) + t].val = member[t]
                    /\ result.cells[o + Before(p.elems, k) + t].val = member[t]

\* the arguments of vec::new that are arrays or vecs
ArrayArgs == {k \in 1..Len(args.elems) : args.elems[k].k \in {"array", "vec"}}

\* C23: an array or vec piece of length L whose elements have slot count c
\* declares slot count L * c and, embedded at offset o, writes element k at
\* offsets o + k*c .. o + (k+1)*c - 1, for k = 0..L-1 in order: exactly L * c
\* slots, none outside o .. o + L*c - 1; an empty array writes nothing.
C23_ArrayPieceLayout ==
    pc = "new_returned" =>
        \A a \in ArrayArgs :
            LET p == args.elems[a]
                L == Len(p.elems)
                c == IF L = 0 THEN 0 ELSE Len(Flatten(p.elems[1]))
                o == Before(args.elems, a)
            IN  /\ Laid(p, o, L * c)
                /\ \A k \in 1..L : Before(p.elems, k) = (k - 1) * c
                /\ L = 0 => Alone(p, o) = uninit(N)

\* ivec4::new([[200u8, 7u8], [7u8, 7u8]]): L = 2, c = 2, the second element in
\* slots 2 and 3
C23_Witness ==
    /\ pc = "new_returned"
    /\ N = 4
    /\ ArrayArgs = {1}
    /\ Len(args.elems[1].elems) = 2
    /\ Flatten(args.elems[1].elems[1]) = <<200, 7>>
    /\ Flatten(args.elems[1].elems[2]) = <<7, 7>>
    /\ result.order = <<0, 4, 8, 12>>
    /\ result.cells[3].val = 7

\* the arguments of vec::new that are tuples
TupleArgs == {k \in 1..Len(args.elems) : args.elems[k].k = "tuple"}

\* C24: a tuple piece declares a slot count that is the sum of the slot
\* counts of its members and, embedded at offset o, embeds member k at o plus
\* the sum of the slot counts of the members before it: the members lie in
\* consecutive disjoint ranges in member order, exactly the declared number
\* of slots is written, and the empty tuple writes nothing.  (The tuples
\* checked are the argument tuple itself, at offset 0, and the tuples in it.)
C24_TuplePieceLayout ==
    pc = "new_returned" =>
        /\ Laid(args, 0, Len(Flatten(args)))
        /\ \A a \in TupleArgs :
            LET p == args.elems[a]
                o == Before(args.elems, a)
            IN  /\ Laid(p, o, Len(Flatten(p)))
                /\ p.elems = << >> => Alone(p, o) = uninit(N)

\* ivec4::new((7u8, [7u8, 200u8]), -1i8): the array of the inner tuple in
\* slots 1 and 2, the second argument in slot 3
C24_Witness ==
    /\ pc = "new_returned"
    /\ N = 4
    /\ TupleArgs = {1}
    /\ Len(args.elems) = 2
    /\ Len(args.elems[1].elems) = 2
    /\ args.elems[1].elems[2].k = "array"
    /\ [i \in 1..4 |-> result.cells[i].val] = <<7, 7, 200, -1>>
    /\ Alone(args.elems[2], 3).order = <<12>>

\* the field declared a-th has a #[conflict] naming the field declared b-th
Declares(a, b) == \E k \in 1..Len(full[a].conflict) : full[a].conflict[k] = full[b].lower

\* some field declares a conflict that the other field does not declare
Asymmetric == \E a, b \in 1..Len(full) : Declares(a, b) /\ ~Declares(b, a)

\* window_builder_create has been expanded, or has panicked
Expanded ==
    pc \in {"expanded", "expansion_panicked", "generated_panicked", "generated_failed",
            "generated_running"}

\* the generated create has been called
GeneratedCalled == pc \in {"generated_panicked", "generated_failed", "generated_running"}

\* C25: window_builder_create panics during its expansion if and only if
\* some field A declares a conflict with a field B while B declares none with
\* A, for every list of declarations, a field that repeats a conflict
\* declaration included.
C25_RejectsIffAsymmetric ==
    Expanded => ((pc = "expansion_panicked") <=> Asymmetric)

\* C26: the generated create fails when it is called with two fields present
\* that were declared as conflicting: for every declared conflict pair its
\* body holds, and executes, a check that the two are not both present.
C26_GeneratedCreateChecksConflicts ==
    GeneratedCalled =>
        \A a, b \in 1..Len(full) :
            Declares(a, b) =>
                /\ \E i \in 1..Len(generated.body) : generated.body[i] = "conflicts"
                /\ (full[a].lower \in present /\ full[b].lower \in present) =>
                       pc = "generated_panicked"

\* the callback that the lookup of event E returns in chain c, if any
Returned(c, E) == IF GetFn(c, E) = None THEN None ELSE Some(c[GetFn(c, E)[1]].val)

\* C27: the lookup of the callback of event E skips every data node and
\* every container registered for another event, wherever they are in the
\* chain: it returns a callback iff one was registered for E, and a builder
\* call that registers a callback for another event, or adds a data field,
\* leaves the callback returned for E, and the node holding it, the same.
C27_LookupSkipsOtherNodes ==
    /\ [](\A E \in CallbackIds : (GetFn(chain, E) # None) <=> Has(E))
    /\ [][(pc = "building" /\ pc' = "building" /\ chain' # chain) =>
            \A E \in CallbackIds :
                TagOf(Head(chain')) # E =>
                    /\ Returned(chain', E) = Returned(chain, E)
                    /\ GetFn(chain, E) # None =>
                           GetFn(chain', E) = Some(GetFn(chain, E)[1] + 1)
       ]_vars

\* on_close(..).on_exit(..).title(..): the on_close callback is found under a
\* data node and the container of another event
C27_Witness ==
    /\ pc = "building"
    /\ Len(chain) = 3
    /\ chain[1].ty = "Title"
    /\ chain[2].ty = "FnContainer" /\ chain[2].id = "OnExit"
    /\ chain[3].ty = "FnContainer" /\ chain[3].id = "OnClose"
    /\ GetFn(chain, "OnClose") = Some(3)
    /\ Returned(chain, "OnClose") = Some(chain[3].val)

\* C28: for every chain and every type T, Component::get_mut::<T> returns
\* Some exactly when Component::get::<T> does, and then both refer to the data
\* of the same node, the first node from the head whose type is T; a get_mut
\* through which nothing is written leaves the chain as it was.
C28_GetMutAgreesWithGet ==
    /\ \A T \in CompTypes :
        /\ ComponentGetMut(comp, T) = ComponentGet(comp, T)
        /\ (ComponentGetMut(comp, T) # None) <=> (Positions(comp, T) # {})
        /\ Positions(comp, T) # {} =>
               ComponentGetMut(comp, T) = Some(First(Positions(comp, T)))
    /\ got # None =>
        /\ comp = got[1].before
        /\ got[1].ref = ComponentGet(comp, got[1].ty)
        /\ (got[1].ref # None) <=> (Positions(comp, got[1].ty) # {})

\* get_mut of a type that the second and the third node of the chain hold:
\* the second node is returned
C28_Witness ==
    /\ got # None
    /\ Len(comp) = 3
    /\ comp[1].ty # got[1].ty
    /\ comp[2].ty = got[1].ty
    /\ comp[3].ty = got[1].ty
    /\ got[1].ref = Some(2)
    /\ ComponentGet(comp, got[1].ty) = Some(2)

\* the elements of a vec returned
Values(m) == [i \in 1..Len(m.cells) |-> m.cells[i].val]

\* what the apply_* counterpart of the modify_* call o returns on vec v
Counterpart(o, v) ==
    IF o.fn = "modify_binary" THEN apply_binary(v, rhs, o.f, o.checks)
    ELSE IF o.fn = "modify_binary_single"
    THEN apply_binary_single(v, o.val, o.f, o.checks, uninit(Len(v)), 0)
    ELSE apply_unary(v, o.f, o.checks, uninit(Len(v)), 0)

\* C29: for every vec v, operand and operation f with the element type as
\* its result, v.modify_binary(rhs, f) returns exactly when
\* v.apply_binary(rhs, f) does and leaves in v the vec that apply_binary
\* returns on the old v, rhs being unchanged; the same for
\* modify_binary_single and apply_binary_single, and for modify_unary and
\* apply_unary: `a op= b` leaves a equal to `a op b`.
C29_ModifyEqualsApply ==
    [][(pc = "vec" /\ op'.fn \in {"modify_binary", "modify_binary_single", "modify_unary"}) =>
        LET r == Counterpart(op', this)
        IN  /\ (pc' = "vec_returned") <=> (r.panic = "none")
            /\ pc' = "vec_returned" => this' = Values(r.m)
            /\ rhs' = rhs
    ]_vars

\* [3, 0, -1] -= [-1, 3, 3] leaves [4, -3, -4]
C29_Witness ==
    /\ pc = "vec_returned"
    /\ op.fn = "modify_binary"
    /\ op.f = "sub"
    /\ rhs = <<-1, 3, 3>>
    /\ this = <<4, -3, -4>>

\* create has failed: a check of it has panicked, or wb.build has
CreateFailed == pc \in {"panicked", "failed"}

\* C30: in create every conflict or requirement failure is raised before the
\* external window is constructed, and whenever create fails, in a check or
\* in the construction, no user callback (on_init, on_close, on_exit) has been
\* or will be invoked and the event loop is never started.
C30_FailureBeforeCallbacksAndLoop ==
    /\ [](pc = "panicked" => (builds = 0 /\ Effects("build") = {}))
    /\ [](CreateFailed =>
            /\ log = << >>
            /\ delivered = << >>
            /\ control_flow = "Poll")
    /\ [][CreateFailed => (pc' = pc /\ log' = log /\ delivered' = delivered)]_vars

\* size_is_logical without size, with on_init and on_close registered: the
\* panic comes with the title set and nothing else done
C30_Witness ==
    /\ pc = "panicked"
    /\ outcome = RequireMsg
    /\ Has("OnInit")
    /\ Has("OnClose")
    /\ builds = 0
    /\ Len(wb) = 1
    /\ log = << >>

====
